---- MODULE Spec2Model ----
(***************************************************************************)
(* Timesheet reconciliation: validation rules (run_validation.py), the     *)
(* persistence of extracted lines, validation checks, approvals and        *)
(* ground truth (crew.py, run_extraction_cortex.py, run_validation.py,     *)
(* app.py).                                                                *)
(*                                                                         *)
(* Encoding of Python values.  A field of a line is a tagged value:        *)
(*   NoneVal      None, or a key that is absent (every read in the code    *)
(*                is line.get(k), which maps both to a falsy default)      *)
(*   Num(n)       a number                                                 *)
(*   Str(s)       a string                                                 *)
(* Hours are counted in half hours (Num(16) is 8.0 hours, Num(1) is 0.5),  *)
(* confidences in hundredths (Num(90) is 0.9).  All values used are exact  *)
(* binary fractions, so float sums and comparisons are exact.              *)
(* A validation check is projected on rule_name, status and line_id; the   *)
(* free-text details and computed_value strings are left out.              *)
(***************************************************************************)
EXTENDS Integers, Sequences, FiniteSets, Bags, TLC

VARIABLES
    lines,               \* run_validation.py: the `lines` argument under validation
    doc_checks,          \* outcome of run_document_validation(lines)
    line_checks,         \* outcomes of run_line_validation for lines[1..k]
    EXTRACTED_LINES,     \* table, doc_id -> rows in insertion order
    VALIDATION_RESULTS,  \* table, doc_id -> rows in insertion order
    LEDGER_APPROVALS,    \* table, a bag of rows (read only through joins and filters)
    GROUND_TRUTH_LINES,  \* table, doc_id -> rows in insertion order
    selected_doc,        \* app.py page 3: the document chosen in the selectbox
    main,                \* run_validation.main: position, loop and counters
    reviewers,           \* app.py page 5: each reviewer's "Approve All Lines" loop
    RECON_SUMMARY,       \* table, rows in insertion order
    crew,                \* TimesheetReconciliationCrew.run: position, loops and results
    gt_session,          \* app.py page 3: the "Save Ground Truth" loop
    cortex,              \* run_extraction_cortex.main: position, loop and all_results
    judged,              \* history: line_id -> the line as drawn on the page that decided it
    last                 \* the operation that produced the current state

vars == <<lines, doc_checks, line_checks, EXTRACTED_LINES, VALIDATION_RESULTS,
          LEDGER_APPROVALS, GROUND_TRUTH_LINES, selected_doc, main, reviewers,
          RECON_SUMMARY, crew, gt_session, cortex, judged, last>>

----------------------------------------------------------------------------
(* Python values *)

NoneVal == [t |-> "none"]

Num(n) == [t |-> "num", v |-> n]

Str(s) == [t |-> "str", s |-> s]

\* Half hours in h hours.
Hours(h) == 2 * h

\* bool(x): None, 0 and "" are falsy.
Truthy(x) ==
    CASE x.t = "none" -> FALSE
      [] x.t = "num"  -> x.v # 0
      [] x.t = "str"  -> x.s # ""

\* The strings float() accepts, with their value in half hours.
NumericStrings == { <<"8", Hours(8)>>, <<"0", 0>> }

\* float(x): a number is itself, a numeric string is parsed, anything else
\* raises (ValueError for a string, TypeError for None).
FloatOf(x) ==
    CASE x.t = "num" -> [ok |-> TRUE, v |-> x.v]
      [] x.t = "str" ->
            IF \E p \in NumericStrings : p[1] = x.s
            THEN [ok |-> TRUE, v |-> (CHOOSE p \in NumericStrings : p[1] = x.s)[2]]
            ELSE [ok |-> FALSE, v |-> 0]
      [] x.t = "none" -> [ok |-> FALSE, v |-> 0]

\* x or 0
OrZero(x) == IF Truthy(x) THEN x ELSE Num(0)

\* The strings datetime.strptime(s, '%Y-%m-%d') accepts.
IsoDates == {"2025-09-13", "2025-09-14"}

\* str(work_date).replace('"', '').strip()
CleanDate(s) ==
    CASE s = "\"2025-09-13\"" -> "2025-09-13"
      [] s = " 2025-09-14 "   -> "2025-09-14"
      [] OTHER                -> s

Check(rule, status, line_id) ==
    [rule_name |-> rule, status |-> status, line_id |-> line_id]

----------------------------------------------------------------------------
(* run_validation.py: the rules *)

RECURSIVE SumFloat(_, _)
\* sum(float(line.get(f, 0) or 0) for line in lines); ok is FALSE when a
\* float() raises.
SumFloat(ls, f) ==
    IF ls = <<>> THEN [ok |-> TRUE, v |-> 0]
    ELSE LET h == FloatOf(OrZero(Head(ls)[f]))
             r == SumFloat(Tail(ls), f)
         IN  [ok |-> h.ok /\ r.ok, v |-> h.v + r.v]

\* TotalHoursStatus with the upper comparison made strict.
TotalHoursStatus_Strict(total_hours) ==
    IF 0 < total_hours /\ total_hours < Hours(60) THEN "PASS"
    ELSE IF total_hours > Hours(60) THEN "WARN" ELSE "FAIL"

\* "PASS" if 0 < total_hours <= 60 else ("WARN" if total_hours > 60 else "FAIL")
TotalHoursStatus(total_hours) ==
    IF 0 < total_hours /\ total_hours <= Hours(60) THEN "PASS"
    ELSE IF total_hours > Hours(60) THEN "WARN" ELSE "FAIL"

\* avg_confidence = sum / len if confidences else 0; PASS iff avg >= 0.7
ConfidenceStatus(sum, n) ==
    IF n > 0 /\ sum >= 70 * n THEN "PASS" ELSE "WARN"

run_document_validation(ls) ==
    LET workers == { ls[i].worker : i \in { j \in DOMAIN ls : Truthy(ls[j].worker) } }
        dates   == SelectSeq(ls, LAMBDA l : Truthy(l.work_date))
        total   == SumFloat(ls, "hours")
        conf    == SumFloat(ls, "extraction_confidence")
    IN  IF ~total.ok \/ ~conf.ok
        THEN [raised |-> TRUE, checks |-> <<>>]
        ELSE [raised |-> FALSE,
              checks |-> <<
                Check("WORKER_IDENTIFIABLE",
                      IF Cardinality(workers) > 0 THEN "PASS" ELSE "FAIL", NoneVal),
                Check("DATES_PRESENT",
                      IF Len(dates) > 0 THEN "PASS" ELSE "FAIL", NoneVal),
                Check("TOTAL_HOURS_REASONABLE", TotalHoursStatus(total.v), NoneVal),
                Check("EXTRACTION_CONFIDENCE",
                      ConfidenceStatus(conf.v, Len(ls)), NoneVal) >>]

\* date_valid: work_date is truthy and its cleaned string parses.
DateValid(work_date) ==
    /\ Truthy(work_date)
    /\ work_date.t = "str"
    /\ CleanDate(work_date.s) \in IsoDates

\* try: hours_value = float(hours) if hours is not None else 0
\*      hours_valid = 0 <= hours_value <= 24
\* except: pass
HoursInRangeStatus(hours) ==
    LET f           == IF hours.t = "none" THEN [ok |-> TRUE, v |-> 0] ELSE FloatOf(hours)
        hours_value == IF f.ok THEN f.v ELSE 0
        hours_valid == f.ok /\ 0 <= hours_value /\ hours_value <= Hours(24)
    IN  IF hours_valid THEN "PASS"
        ELSE IF hours_value > Hours(24) THEN "WARN" ELSE "FAIL"

\* missing = [f for f in required if not line.get(f)]
RequiredFieldsStatus(line) ==
    IF \E f \in {"worker", "work_date", "hours"} : ~Truthy(line[f])
    THEN "FAIL" ELSE "PASS"

run_line_validation(line, line_id) ==
    << Check("VALID_DATE_FORMAT",
             IF DateValid(line.work_date) THEN "PASS" ELSE "FAIL", line_id),
       Check("HOURS_IN_RANGE", HoursInRangeStatus(line.hours), line_id),
       Check("REQUIRED_FIELDS_PRESENT", RequiredFieldsStatus(line), line_id) >>

----------------------------------------------------------------------------
(* Bounds and input domains *)

\* Longest list of lines handed to the validation functions.
MaxLen == 2

\* The documents, in doc_id order.
DocOrder == <<"d1", "d2">>

Docs == { DocOrder[i] : i \in DOMAIN DocOrder }

\* f"{doc_id}_L{i+1}" for the 0-based index i; i here is 1-based.
LineId(doc_id, i) == [t |-> "id", doc_id |-> doc_id, n |-> i]

Line(worker, work_date, project, hours, confidence) ==
    [worker |-> worker, work_date |-> work_date, project |-> project,
     hours |-> hours, extraction_confidence |-> confidence]

\* Values an hours field can take in a dict decoded from model output:
\* missing, negative, 0, 0.5, 24, 24.5, 60, 60.5, and strings.
HoursInputs ==
    { NoneVal, Num(-1), Num(0), Num(1), Num(Hours(24)), Num(Hours(24) + 1),
      Num(Hours(60)), Num(Hours(60) + 1), Str("8"), Str("0"), Str("abc"), Str("") }

LineInputs ==
    { Line(Str("Mike"), Str("2025-09-13"), Str("P1"), h, Num(90)) : h \in HoursInputs }
    \cup
    { Line(NoneVal, Str("2025-09-13"), Str("P1"), Num(Hours(8)), Num(90)),
      Line(Str(""), Str("\"2025-09-13\""), Str("P1"), Num(Hours(8)), Num(50)),
      Line(Str("Ann"), NoneVal, Str("P2"), Num(Hours(8)), NoneVal),
      Line(Str("Ann"), Str("9/13/2025"), Str("P2"), Num(Hours(8)), Str("high")),
      Line(Str("Mike"), Str(""), NoneVal, Num(0), Num(0)),
      Line(NoneVal, NoneVal, NoneVal, NoneVal, NoneVal) }

SeqsUpTo(S, n) == UNION { [1..k -> S] : k \in 0..n }

EmptyTable == [d \in Docs |-> <<>>]

MainIdle == [pc |-> "idle", todo |-> <<>>, all_results |-> [d \in Docs |-> <<>>],
             total_fail |-> 0, total_warn |-> 0, overall |-> "none", runs |-> 0]

\* Browser sessions on the approval page (the Streamlit server runs each
\* session's script in its own thread over the shared connection).
Reviewers == {"r1", "r2"}

\* No reviewer is inside the "Approve All Lines" loop.
ReviewersIdle == [r \in Reviewers |-> [pc |-> "idle", doc_id |-> "none", rows |-> <<>>]]

\* No call of save_extracted_lines is in progress.
NoSave == [doc_id |-> "none", stmt |-> 0, pending |-> <<>>, lines |-> <<>>, before |-> <<>>]

\* No pipeline run has started.
CrewIdle == [pc |-> "idle", save_to_snowflake |-> FALSE, doc_ids |-> <<>>, todo |-> <<>>,
             extractions |-> <<>>, validations |-> <<>>, accuracy_reports |-> <<>>,
             reconciliation |-> NoneVal, saving |-> NoSave, runs |-> 0]

\* The "Save Ground Truth" handler is not running.
GtSessionIdle == [pc |-> "idle", doc_id |-> "none", pending |-> <<>>, rows |-> <<>>,
                  before |-> <<>>]

\* run_extraction_cortex.main has not started.
CortexIdle == [pc |-> "idle", todo |-> <<>>, all_results |-> [d \in Docs |-> NoneVal], runs |-> 0]

\* No decision has been taken.
NoneJudged == <<>>

----------------------------------------------------------------------------
(* Specification of the validation functions on arbitrary line dicts *)

InitValidate ==
    /\ lines \in SeqsUpTo(LineInputs, MaxLen)
    /\ doc_checks = <<>>
    /\ line_checks = <<>>
    /\ EXTRACTED_LINES = EmptyTable
    /\ VALIDATION_RESULTS = EmptyTable
    /\ LEDGER_APPROVALS = EmptyBag
    /\ GROUND_TRUTH_LINES = EmptyTable
    /\ selected_doc = DocOrder[1]
    /\ main = MainIdle
    /\ reviewers = ReviewersIdle
    /\ RECON_SUMMARY = <<>>
    /\ crew = CrewIdle
    /\ gt_session = GtSessionIdle
    /\ cortex = CortexIdle
    /\ judged = NoneJudged
    /\ last = [op |-> "init"]

\* A call run_document_validation(conn, doc_id, lines).
RunDocumentValidation ==
    /\ doc_checks = <<>>
    /\ doc_checks' = << run_document_validation(lines) >>
    /\ UNCHANGED <<RECON_SUMMARY, crew, gt_session, cortex, judged,
                   reviewers, selected_doc, lines, line_checks, EXTRACTED_LINES, VALIDATION_RESULTS,
                   LEDGER_APPROVALS, GROUND_TRUTH_LINES, main, last>>

\* A call run_line_validation(conn, doc_id, line, line_id) on the next line.
RunLineValidation ==
    /\ Len(line_checks) < Len(lines)
    /\ LET i == Len(line_checks) + 1
       IN  line_checks' = Append(line_checks, run_line_validation(lines[i], LineId("d1", i)))
    /\ UNCHANGED <<RECON_SUMMARY, crew, gt_session, cortex, judged,
                   reviewers, selected_doc, lines, doc_checks, EXTRACTED_LINES, VALIDATION_RESULTS,
                   LEDGER_APPROVALS, GROUND_TRUTH_LINES, main, last>>

NextValidate == RunDocumentValidation \/ RunLineValidation

SpecValidate == InitValidate /\ [][NextValidate]_vars

----------------------------------------------------------------------------
(* run_validation.py: main and save_validation_results *)

\* A row of EXTRACTED_LINES; raw_text_snippet is never read and is left out.
ExtractedRow(doc_id, i, line) ==
    [line_id |-> LineId(doc_id, i), doc_id |-> doc_id, worker |-> line.worker,
     work_date |-> line.work_date, project |-> line.project, hours |-> line.hours,
     extraction_confidence |-> line.extraction_confidence]

\* f"{doc_id}_V{i+1}" for the 0-based index i; i here is 1-based.
ValidationId(doc_id, i) == [t |-> "id", doc_id |-> doc_id, n |-> i]

ValidationRow(doc_id, i, check) ==
    [validation_id |-> ValidationId(doc_id, i), doc_id |-> doc_id,
     line_id |-> check.line_id, rule_name |-> check.rule_name, status |-> check.status]

\* The INSERT loop shared by both save_validation_results functions.
InsertChecks(doc_id, checks) ==
    [i \in 1..Len(checks) |-> ValidationRow(doc_id, i, checks[i])]

\* run_validation.save_validation_results: INSERT each check, nothing else.
save_validation_results(table, doc_id, checks) ==
    [table EXCEPT ![doc_id] = @ \o InsertChecks(doc_id, checks)]

\* SampledLines with a cap of four.
SampledLines_Four(ls) == SubSeq(ls, 1, IF Len(ls) < 4 THEN Len(ls) ELSE 4)

\* lines[:5]
SampledLines(ls) == SubSeq(ls, 1, IF Len(ls) < 5 THEN Len(ls) ELSE 5)

RECURSIVE LineLevelChecks(_)
\* for line in lines[:5]: all_checks.extend(run_line_validation(..., line["line_id"]))
LineLevelChecks(ls) ==
    IF ls = <<>> THEN <<>>
    ELSE run_line_validation(Head(ls), Head(ls).line_id) \o LineLevelChecks(Tail(ls))

\* The body of main's loop up to the save: the rows of the document are read
\* in storage order (the query has no ORDER BY), then validated.
ValidateDocument(rows) ==
    LET d == run_document_validation(rows)
    IN  IF d.raised THEN [raised |-> TRUE, all_checks |-> <<>>]
        ELSE [raised |-> FALSE,
              all_checks |-> d.checks \o LineLevelChecks(SampledLines(rows))]

CountStatus(checks, status) == Len(SelectSeq(checks, LAMBDA c : c.status = status))

\* overall = "PASS" if total_fail == 0 else "FAIL"
OverallStatus(total_fail, total_warn) == IF total_fail = 0 THEN "PASS" ELSE "FAIL"

\* SELECT DISTINCT doc_id FROM EXTRACTED_LINES ORDER BY doc_id
DistinctDocIds(table) == SelectSeq(DocOrder, LAMBDA d : table[d] # <<>>)

\* Runs of a script's main in one behaviour.
MaxRuns == 2

\* main up to the loop: the documents that have extracted lines are listed.
MainStart ==
    /\ main.pc \in {"idle", "done", "raised"}
    /\ main.runs < MaxRuns
    /\ main' = [pc |-> "loop",
                todo |-> DistinctDocIds(EXTRACTED_LINES),
                all_results |-> [d \in Docs |-> <<>>],
                total_fail |-> 0, total_warn |-> 0, overall |-> "none",
                runs |-> main.runs + 1]
    /\ last' = [op |-> "main_start"]
    /\ UNCHANGED <<RECON_SUMMARY, crew, gt_session, cortex, judged,
                   reviewers, selected_doc, lines, doc_checks, line_checks, EXTRACTED_LINES, VALIDATION_RESULTS,
                   LEDGER_APPROVALS, GROUND_TRUTH_LINES>>

\* One iteration of main's loop: validate the next document and save its
\* checks.  An exception of run_document_validation ends main.
MainValidateDoc ==
    /\ main.pc = "loop"
    /\ main.todo # <<>>
    /\ LET doc_id == Head(main.todo)
           r      == ValidateDocument(EXTRACTED_LINES[doc_id])
       IN  IF r.raised
           THEN /\ main' = [main EXCEPT !.pc = "raised"]
                /\ UNCHANGED VALIDATION_RESULTS
           ELSE /\ VALIDATION_RESULTS' =
                       save_validation_results(VALIDATION_RESULTS, doc_id, r.all_checks)
                /\ main' = [main EXCEPT
                       !.todo = Tail(@),
                       !.all_results[doc_id] = r.all_checks,
                       !.total_fail = @ + CountStatus(r.all_checks, "FAIL"),
                       !.total_warn = @ + CountStatus(r.all_checks, "WARN")]
    /\ last' = [op |-> "main_validate", doc_id |-> Head(main.todo)]
    /\ UNCHANGED <<RECON_SUMMARY, crew, gt_session, cortex, judged,
                   reviewers, selected_doc, lines, doc_checks, line_checks, EXTRACTED_LINES,
                   LEDGER_APPROVALS, GROUND_TRUTH_LINES>>

\* main after the loop: the overall status is printed.
MainFinish ==
    /\ main.pc = "loop"
    /\ main.todo = <<>>
    /\ main' = [main EXCEPT !.pc = "done",
                            !.overall = OverallStatus(main.total_fail, main.total_warn)]
    /\ last' = [op |-> "main_finish"]
    /\ UNCHANGED <<RECON_SUMMARY, crew, gt_session, cortex, judged,
                   reviewers, selected_doc, lines, doc_checks, line_checks, EXTRACTED_LINES, VALIDATION_RESULTS,
                   LEDGER_APPROVALS, GROUND_TRUTH_LINES>>

\* crew.save_validation_results: DELETE the document's rows, then INSERT.
crew_save_validation_results(table, doc_id, checks) ==
    [table EXCEPT ![doc_id] = InsertChecks(doc_id, checks)]

\* Check lists a validation agent may return for a document.
AgentCheckLists(doc_id) ==
    { <<>>,
      << Check("WORKER_IDENTIFIABLE", "FAIL", NoneVal),
         Check("HOURS_IN_RANGE", "WARN", LineId(doc_id, 1)) >> }

\* TimesheetReconciliationCrew.save_validation_results(validation_result)
CrewSaveValidationResults ==
    \E doc_id \in Docs : \E checks \in AgentCheckLists(doc_id) :
        /\ VALIDATION_RESULTS' =
               crew_save_validation_results(VALIDATION_RESULTS, doc_id, checks)
        /\ last' = [op |-> "crew_save_validation", doc_id |-> doc_id, checks |-> checks]
        /\ UNCHANGED <<RECON_SUMMARY, crew, gt_session, cortex, judged,
                   reviewers, selected_doc, lines, doc_checks, line_checks, EXTRACTED_LINES,
                       LEDGER_APPROVALS, GROUND_TRUTH_LINES, main>>

\* Most lines a document holds when main runs.
MaxStoredLines == 6

\* Lines as EXTRACTED_LINES stores them: hours and confidence are numbers or
\* NULL (app.py sums, averages and formats both columns as numbers).
StoredLineInputs ==
    { Line(Str("Mike"), Str("2025-09-13"), Str("P1"), Num(Hours(8)), Num(90)),
      Line(Str("Mike"), Str("2025-09-14"), Str("P1"), Num(Hours(24) + 1), Num(50)),
      Line(NoneVal, NoneVal, Str("P2"), NoneVal, NoneVal) }

StoredRows(doc_id, ls) == [i \in 1..Len(ls) |-> ExtractedRow(doc_id, i, ls[i])]

\* The tables after an extraction of d1 (any lines) and d2 (none or one line),
\* before any validation.
InitMain ==
    /\ lines = <<>>
    /\ doc_checks = <<>>
    /\ line_checks = <<>>
    /\ \E l1 \in SeqsUpTo(StoredLineInputs, MaxStoredLines),
          l2 \in SeqsUpTo({Line(Str("Ann"), Str("2025-09-13"), Str("P2"), Num(Hours(8)), Num(90))}, 1) :
            EXTRACTED_LINES = [d \in Docs |-> IF d = "d1" THEN StoredRows(d, l1)
                                               ELSE StoredRows(d, l2)]
    /\ VALIDATION_RESULTS = EmptyTable
    /\ LEDGER_APPROVALS = EmptyBag
    /\ GROUND_TRUTH_LINES = EmptyTable
    /\ selected_doc = DocOrder[1]
    /\ main = MainIdle
    /\ reviewers = ReviewersIdle
    /\ RECON_SUMMARY = <<>>
    /\ crew = CrewIdle
    /\ gt_session = GtSessionIdle
    /\ cortex = CortexIdle
    /\ judged = NoneJudged
    /\ last = [op |-> "init"]

\* The crew saves validations before the script's first run or after its last
\* one, never while main is running (one writer).
CrewSaveValidationResultsMain ==
    /\ main.pc = "idle" \/ (main.pc \in {"done", "raised"} /\ main.runs = MaxRuns)
    /\ CrewSaveValidationResults

NextMain == MainStart \/ MainValidateDoc \/ MainFinish \/ CrewSaveValidationResultsMain

SpecMain == InitMain /\ [][NextMain]_vars

----------------------------------------------------------------------------
(* crew.py, run_extraction_cortex.py, app.py page 5: extracted lines and   *)
(* what depends on them                                                    *)

\* DeleteDoc with the WHERE clause left out.
DeleteDoc_All(bag, doc_id) == EmptyBag

\* DELETE FROM <bag table> WHERE doc_id = %s
DeleteDoc(bag, doc_id) ==
    LET keep == { r \in BagToSet(bag) : r.doc_id # doc_id }
    IN  [r \in keep |-> bag[r]]

\* crew.save_extracted_lines: DELETE the document's rows, then INSERT the
\* lines of the result with line_id f"{doc_id}_L{i+1}".
crew_save_extracted_lines(table, doc_id, ls) ==
    [table EXCEPT ![doc_id] = StoredRows(doc_id, ls)]

\* run_extraction_cortex.save_extracted_lines: INSERT only.
cortex_save_extracted_lines(table, doc_id, ls) ==
    [table EXCEPT ![doc_id] = @ \o StoredRows(doc_id, ls)]

\* Most lines in one extraction result.
MaxLines == 2

\* Most rows EXTRACTED_LINES holds for a document.
MaxRows == 2

\* Lines an extraction can return (ExtractedLine: worker, work_date, project
\* strings, hours and extraction_confidence floats).
ResultLineInputs ==
    { Line(Str("Mike"), Str("2025-09-13"), Str("P1"), Num(Hours(8)), Num(90)),
      Line(Str("Mike"), Str("2025-09-14"), Str("P2"), Num(Hours(4)), Num(50)) }

ExtractionResults == SeqsUpTo(ResultLineInputs, MaxLines)

\* What a completed call save_extracted_lines(doc_id, {"lines": ls}) does to
\* the tables.
SaveExtractedLines(doc_id, ls) ==
    /\ LEDGER_APPROVALS' = DeleteDoc(LEDGER_APPROVALS, doc_id)
    /\ VALIDATION_RESULTS' = [VALIDATION_RESULTS EXCEPT ![doc_id] = <<>>]
    /\ EXTRACTED_LINES' = crew_save_extracted_lines(EXTRACTED_LINES, doc_id, ls)
    /\ last' = [op |-> "crew_save_extracted", doc_id |-> doc_id, lines |-> ls]

\* TimesheetReconciliationCrew.save_extracted_lines(doc_id, extraction_result)
CrewSaveExtractedLines ==
    \E doc_id \in Docs : \E ls \in ExtractionResults :
        /\ SaveExtractedLines(doc_id, ls)
        /\ UNCHANGED <<RECON_SUMMARY, crew, gt_session, cortex, judged,
                   reviewers, selected_doc, lines, doc_checks, line_checks, GROUND_TRUTH_LINES, main>>

\* One iteration of run_extraction_cortex.main: extract_with_cortex returns
\* a result (lines [] when the response does not parse) and the result is
\* saved when it has lines.
CortexExtract ==
    \E doc_id \in Docs : \E ls \in ExtractionResults :
        /\ Len(EXTRACTED_LINES[doc_id]) + Len(ls) <= MaxRows
        /\ EXTRACTED_LINES' =
               IF Len(ls) > 0
               THEN cortex_save_extracted_lines(EXTRACTED_LINES, doc_id, ls)
               ELSE EXTRACTED_LINES
        /\ last' = [op |-> "cortex_extract", doc_id |-> doc_id, lines |-> ls]
        /\ UNCHANGED <<RECON_SUMMARY, crew, gt_session, cortex, judged,
                   reviewers, selected_doc, lines, doc_checks, line_checks, VALIDATION_RESULTS,
                       LEDGER_APPROVALS, GROUND_TRUTH_LINES, main>>

\* One iteration of run_extraction_cortex.main in which extract_with_cortex
\* raises: the error is recorded in all_results and nothing is saved.
CortexExtractFails ==
    \E doc_id \in Docs :
        /\ last' = [op |-> "cortex_extract_failed", doc_id |-> doc_id]
        /\ UNCHANGED <<RECON_SUMMARY, crew, gt_session, cortex, judged,
                   reviewers, selected_doc, lines, doc_checks, line_checks, EXTRACTED_LINES, VALIDATION_RESULTS,
                       LEDGER_APPROVALS, GROUND_TRUTH_LINES, main>>

ApprovalRow(line_id, doc_id, decision, corrected_hours, corrected_date, corrected_project, reason) ==
    [line_id |-> line_id, doc_id |-> doc_id, decision |-> decision,
     corrected_hours |-> corrected_hours, corrected_date |-> corrected_date,
     corrected_project |-> corrected_project, reason |-> reason]

\* MERGE INTO LEDGER_APPROVALS ... ON t.line_id = s.line_id
\*   WHEN MATCHED THEN UPDATE SET decision = 'APPROVED'
\*   WHEN NOT MATCHED THEN INSERT (line_id, doc_id, decision)
MergeApproved(bag, line_id, doc_id) ==
    IF \E r \in BagToSet(bag) : r.line_id = line_id
    THEN LET Upd(r) == IF r.line_id = line_id THEN [r EXCEPT !.decision = "APPROVED"] ELSE r
         IN  BagOfAll(Upd, bag)
    ELSE bag (+) SetToBag({ ApprovalRow(line_id, doc_id, "APPROVED",
                                        NoneVal, NoneVal, NoneVal, NoneVal) })

RECURSIVE ApproveRows(_, _, _)
\* for _, row in lines_df.iterrows(): MERGE ...
ApproveRows(bag, rows, doc_id) ==
    IF rows = <<>> THEN bag
    ELSE ApproveRows(MergeApproved(bag, Head(rows).line_id, doc_id), Tail(rows), doc_id)

\* Page 5, "Approve All Lines" for the selected document; the button is
\* shown when the document has lines.
ApproveAllLines ==
    \E doc_id \in Docs :
        /\ EXTRACTED_LINES[doc_id] # <<>>
        /\ LEDGER_APPROVALS' = ApproveRows(LEDGER_APPROVALS, EXTRACTED_LINES[doc_id], doc_id)
        /\ last' = [op |-> "approve_all", doc_id |-> doc_id]
        /\ UNCHANGED <<RECON_SUMMARY, crew, gt_session, cortex, judged,
                   reviewers, selected_doc, lines, doc_checks, line_checks, EXTRACTED_LINES, VALIDATION_RESULTS,
                       GROUND_TRUTH_LINES, main>>

\* The line_ids of a document whose decision row says APPROVED.
ApprovedLineIds(bag, doc_id) ==
    { r.line_id : r \in { x \in BagToSet(bag) : x.doc_id = doc_id /\ x.decision = "APPROVED" } }

\* Every row of lines_df shows the decision APPROVED.
AllApproved(rows, bag) ==
    \A i \in DOMAIN rows :
        /\ \E r \in BagToSet(bag) : r.line_id = rows[i].line_id
        /\ \A r \in BagToSet(bag) : r.line_id = rows[i].line_id => r.decision = "APPROVED"

\* Page 5, "Clear All Approvals" for the selected document.
ClearAllApprovals ==
    \E doc_id \in Docs :
        /\ EXTRACTED_LINES[doc_id] # <<>>
        /\ LEDGER_APPROVALS' = DeleteDoc(LEDGER_APPROVALS, doc_id)
        /\ last' = [op |-> "clear_approvals", doc_id |-> doc_id,
                    approved_before |-> ApprovedLineIds(LEDGER_APPROVALS, doc_id),
                    all_approved |-> AllApproved(EXTRACTED_LINES[doc_id], LEDGER_APPROVALS)]
        /\ UNCHANGED <<RECON_SUMMARY, crew, gt_session, cortex, judged,
                   reviewers, selected_doc, lines, doc_checks, line_checks, EXTRACTED_LINES, VALIDATION_RESULTS,
                       GROUND_TRUTH_LINES, main>>

Init ==
    /\ lines = <<>>
    /\ doc_checks = <<>>
    /\ line_checks = <<>>
    /\ EXTRACTED_LINES = EmptyTable
    /\ VALIDATION_RESULTS = EmptyTable
    /\ LEDGER_APPROVALS = EmptyBag
    /\ GROUND_TRUTH_LINES = EmptyTable
    /\ selected_doc = DocOrder[1]
    /\ main = MainIdle
    /\ reviewers = ReviewersIdle
    /\ RECON_SUMMARY = <<>>
    /\ crew = CrewIdle
    /\ gt_session = GtSessionIdle
    /\ cortex = CortexIdle
    /\ judged = NoneJudged
    /\ last = [op |-> "init"]

Next ==
    \/ CrewSaveExtractedLines
    \/ CortexExtract
    \/ CortexExtractFails
    \/ CrewSaveValidationResults
    \/ ApproveAllLines
    \/ ClearAllApprovals

Spec == Init /\ [][Next]_vars

----------------------------------------------------------------------------
(* app.py page 3: ground truth entry *)

\* Day columns of the grid that are modelled (the page has seven).
NumDays == 2

\* week_dates[i].strftime("%Y-%m-%d") for the Saturday-to-Friday week.
WeekDates == <<"2025-09-13", "2025-09-14", "2025-09-15", "2025-09-16",
               "2025-09-17", "2025-09-18", "2025-09-19">>

\* Most rows in the edited grid.
MaxGridRows == 2

\* Rows of the edited grid: project P1 with 8.0 on no day, on every day, on
\* the first day only or on the last day only (0.0 elsewhere), a row
\* without project, and a row added in the editor for P2 with 4.0 on the
\* first day and the other cells empty.
GridRowInputs ==
    { [Project |-> Str("P1"),
       cells |-> [i \in 1..NumDays |-> IF i \in on THEN Num(Hours(8)) ELSE Num(0)]] :
          on \in { {}, 1..NumDays, {1}, {NumDays} } }
    \cup
    { [Project |-> NoneVal, cells |-> [i \in 1..NumDays |-> Num(Hours(4))]],
      [Project |-> Str("P2"),
       cells |-> [i \in 1..NumDays |-> IF i = 1 THEN Num(Hours(4)) ELSE NoneVal]] }

GridInputs == SeqsUpTo(GridRowInputs, MaxGridRows)

GroundTruthRow(doc_id, worker, work_date, project, hours) ==
    [doc_id |-> doc_id, worker |-> worker, work_date |-> work_date,
     project |-> project, hours |-> hours]

\* hours = float(row.get(col_name, 0) or 0)
CellHours(cell) == FloatOf(OrZero(cell)).v

RECURSIVE InsertCells(_, _, _, _)
\* for i, col_name in enumerate(day_columns): INSERT when hours > 0
InsertCells(doc_id, worker, row, i) ==
    IF i > NumDays THEN <<>>
    ELSE (IF CellHours(row.cells[i]) > 0
          THEN << GroundTruthRow(doc_id, worker, Str(WeekDates[i]), row.Project,
                                 Num(CellHours(row.cells[i]))) >>
          ELSE <<>>)
         \o InsertCells(doc_id, worker, row, i + 1)

RECURSIVE InsertGrid(_, _, _)
\* for _, row in edited_df.iterrows(): skip rows without a project
InsertGrid(doc_id, worker, grid) ==
    IF grid = <<>> THEN <<>>
    ELSE (IF ~Truthy(Head(grid).Project) THEN <<>>
          ELSE InsertCells(doc_id, worker, Head(grid), 1))
         \o InsertGrid(doc_id, worker, Tail(grid))

\* save_ground_truth with the DELETE left out.
save_ground_truth_NoDelete(table, doc_id, worker, grid) ==
    [table EXCEPT ![doc_id] = @ \o InsertGrid(doc_id, worker, grid)]

\* The "Save Ground Truth" handler: DELETE the document's rows, then INSERT
\* one row per filled cell.
save_ground_truth(table, doc_id, worker, grid) ==
    [table EXCEPT ![doc_id] = InsertGrid(doc_id, worker, grid)]

\* Page 3, "Save Ground Truth" for the selected document.
SaveGroundTruth ==
    \E grid \in GridInputs :
        /\ GROUND_TRUTH_LINES' =
               save_ground_truth(GROUND_TRUTH_LINES, selected_doc, Str("Mike"), grid)
        /\ last' = [op |-> "save_ground_truth", doc_id |-> selected_doc,
                    worker |-> Str("Mike"), grid |-> grid,
                    had_rows |-> GROUND_TRUTH_LINES[selected_doc] # <<>>]
        /\ UNCHANGED <<RECON_SUMMARY, crew, gt_session, cortex, judged,
                   reviewers, selected_doc, lines, doc_checks, line_checks, EXTRACTED_LINES,
                       VALIDATION_RESULTS, LEDGER_APPROVALS, main>>

\* Page 3, "Clear Ground Truth" for the selected document.
ClearGroundTruth ==
    /\ GROUND_TRUTH_LINES' = [GROUND_TRUTH_LINES EXCEPT ![selected_doc] = <<>>]
    /\ last' = [op |-> "clear_ground_truth", doc_id |-> selected_doc]
    /\ UNCHANGED <<RECON_SUMMARY, crew, gt_session, cortex, judged,
                   reviewers, selected_doc, lines, doc_checks, line_checks, EXTRACTED_LINES,
                   VALIDATION_RESULTS, LEDGER_APPROVALS, main>>

\* Ground truth a document may hold from an earlier session.
EarlierGroundTruth(doc_id) ==
    { <<>>,
      << GroundTruthRow(doc_id, Str("Ann"), Str(WeekDates[1]), Str("P1"), Num(Hours(6))) >> }

\* A ground-truth entry session on one selected document.
InitGT ==
    /\ lines = <<>>
    /\ doc_checks = <<>>
    /\ line_checks = <<>>
    /\ EXTRACTED_LINES = EmptyTable
    /\ VALIDATION_RESULTS = EmptyTable
    /\ LEDGER_APPROVALS = EmptyBag
    /\ GROUND_TRUTH_LINES \in { t \in [Docs -> UNION { EarlierGroundTruth(d) : d \in Docs }] :
                                    \A d \in Docs : t[d] \in EarlierGroundTruth(d) }
    /\ selected_doc \in Docs
    /\ main = MainIdle
    /\ reviewers = ReviewersIdle
    /\ RECON_SUMMARY = <<>>
    /\ crew = CrewIdle
    /\ gt_session = GtSessionIdle
    /\ cortex = CortexIdle
    /\ judged = NoneJudged
    /\ last = [op |-> "init"]

NextGT == SaveGroundTruth \/ ClearGroundTruth

SpecGT == InitGT /\ [][NextGT]_vars

----------------------------------------------------------------------------
(* app.py page 5: per-line review and the trusted ledger *)

\* The form of one line's expander when "Submit" is pressed, as the values
\* bound into the MERGE: corrected_hours, str(corrected_date) if corrected_date
\* else None, corrected_project, reason or None.
Form(decision, corrected_hours, corrected_date, corrected_project, reason) ==
    [decision |-> decision, corrected_hours |-> corrected_hours,
     corrected_date |-> corrected_date, corrected_project |-> corrected_project,
     reason |-> IF Truthy(reason) THEN reason ELSE NoneVal]

\* Forms with the widgets of a CORRECTED decision: number_input, date_input and
\* text_input start at the line's own values; the reviewer changes the hours
\* to 6.5, or the date, or the hours and empties the project.
CorrectedForms(row) ==
    { Form("CORRECTED", Num(13), row.work_date, row.project, Str("")),
      Form("CORRECTED", row.hours, Str("2025-09-15"), row.project, Str("")),
      Form("CORRECTED", Num(13), row.work_date, Str(""), Str("")) }

\* Forms of the other decisions: the correction widgets are not shown and
\* their values stay None; a rejection reason may be left empty.
PlainForms ==
    { Form("APPROVED", NoneVal, NoneVal, NoneVal, Str("")),
      Form("REJECTED", NoneVal, NoneVal, NoneVal, Str("")),
      Form("REJECTED", NoneVal, NoneVal, NoneVal, Str("duplicate")) }

FormInputs(row) == PlainForms \cup CorrectedForms(row)

\* The forms used where reviewers interleave.
FewFormInputs(row) ==
    { Form("APPROVED", NoneVal, NoneVal, NoneVal, Str("")),
      Form("REJECTED", NoneVal, NoneVal, NoneVal, Str("duplicate")),
      Form("CORRECTED", Num(13), row.work_date, row.project, Str("")) }

\* MergeDecision with the MATCHED branch left out: always INSERT.
MergeDecision_InsertOnly(bag, line_id, doc_id, f) ==
    bag (+) SetToBag({ ApprovalRow(line_id, doc_id, f.decision, f.corrected_hours,
                                   f.corrected_date, f.corrected_project, f.reason) })

\* MergeDecision whose MATCHED branch updates the decision only.
MergeDecision_KeepOverrides(bag, line_id, doc_id, f) ==
    IF \E r \in BagToSet(bag) : r.line_id = line_id
    THEN LET Upd(r) == IF r.line_id = line_id THEN [r EXCEPT !.decision = f.decision] ELSE r
         IN  BagOfAll(Upd, bag)
    ELSE MergeDecision_InsertOnly(bag, line_id, doc_id, f)

\* MERGE INTO LEDGER_APPROVALS t USING (SELECT %s AS line_id) s ON t.line_id = s.line_id
\*   WHEN MATCHED THEN UPDATE SET decision, corrected_hours, corrected_date,
\*                                corrected_project, reason
\*   WHEN NOT MATCHED THEN INSERT (line_id, doc_id, decision, corrected_..., reason)
MergeDecision(bag, line_id, doc_id, f) ==
    IF \E r \in BagToSet(bag) : r.line_id = line_id
    THEN LET Upd(r) ==
                 IF r.line_id = line_id
                 THEN [r EXCEPT !.decision = f.decision,
                                !.corrected_hours = f.corrected_hours,
                                !.corrected_date = f.corrected_date,
                                !.corrected_project = f.corrected_project,
                                !.reason = f.reason]
                 ELSE r
         IN  BagOfAll(Upd, bag)
    ELSE bag (+) SetToBag({ ApprovalRow(line_id, doc_id, f.decision, f.corrected_hours,
                                        f.corrected_date, f.corrected_project, f.reason) })

\* The expanders are drawn in the order of lines_df with widget keys made of
\* the line_id; a second row with a line_id already drawn raises
\* DuplicateWidgetID and the rows from there on have no Submit button.
SubmitShown(rows, i) ==
    \A j, k \in 1..i : rows[j].line_id = rows[k].line_id => j = k

\* Page 5, "Submit" in the expander of one line; few narrows the forms drawn.
SubmitWith(few) ==
    \E doc_id \in Docs : \E i \in DOMAIN EXTRACTED_LINES[doc_id] :
        LET row == EXTRACTED_LINES[doc_id][i]
        IN  /\ SubmitShown(EXTRACTED_LINES[doc_id], i)
            /\ \E f \in (IF few THEN FewFormInputs(row) ELSE FormInputs(row)) :
                /\ LEDGER_APPROVALS' = MergeDecision(LEDGER_APPROVALS, row.line_id, doc_id, f)
                /\ last' = [op |-> "submit", doc_id |-> doc_id, row |-> row, form |-> f,
                            again |-> /\ last.op = "submit"
                                      /\ last.row = row
                                      /\ last.form = f]
            /\ UNCHANGED <<RECON_SUMMARY, crew, gt_session, cortex, judged,
                   reviewers, selected_doc, lines, doc_checks, line_checks,
                           EXTRACTED_LINES, VALIDATION_RESULTS, GROUND_TRUTH_LINES, main>>

Submit == SubmitWith(FALSE)

\* COALESCE(x, y)
Coalesce(x, y) == IF x = NoneVal THEN y ELSE x

\* One row of the TRUSTED_LEDGER view: the line e under its decision row a.
\* An APPROVED line is emitted with its original values, a CORRECTED line with
\* each override that is present laid over the original.
TrustedLedgerEntry(e, a) ==
    IF a.decision = "APPROVED"
    THEN [line_id |-> e.line_id, doc_id |-> e.doc_id, worker |-> e.worker,
          work_date |-> e.work_date, project |-> e.project, hours |-> e.hours]
    ELSE [line_id |-> e.line_id, doc_id |-> e.doc_id, worker |-> e.worker,
          work_date |-> Coalesce(a.corrected_date, e.work_date),
          project |-> Coalesce(a.corrected_project, e.project),
          hours |-> Coalesce(a.corrected_hours, e.hours)]

RECURSIVE SeqOfSet(_)
SeqOfSet(S) ==
    IF S = {} THEN <<>>
    ELSE LET x == CHOOSE y \in S : TRUE IN <<x>> \o SeqOfSet(S \ {x})

RECURSIVE ConcatAll(_)
ConcatAll(ss) == IF ss = <<>> THEN <<>> ELSE Head(ss) \o ConcatAll(Tail(ss))

\* The rows of every document, documents in doc_id order.
AllExtractedRows(table) == ConcatAll([i \in DOMAIN DocOrder |-> table[DocOrder[i]]])

\* The ledger rows of the line e: one per decision row of its line_id that
\* says APPROVED or CORRECTED.
LedgerRowsOf(e, approvals) ==
    LET matching == SeqOfSet({ a \in BagToSet(approvals) :
                                  /\ a.line_id = e.line_id
                                  /\ a.decision \in {"APPROVED", "CORRECTED"} })
    IN  ConcatAll([k \in DOMAIN matching |->
                      [n \in 1..approvals[matching[k]] |-> TrustedLedgerEntry(e, matching[k])]])

\* SELECT * FROM TRUSTED_LEDGER: the view over EXTRACTED_LINES joined to
\* LEDGER_APPROVALS on line_id, recomputed on every read.
TrustedLedger(table, approvals) ==
    LET rows == AllExtractedRows(table)
    IN  ConcatAll([i \in DOMAIN rows |-> LedgerRowsOf(rows[i], approvals)])

RECURSIVE SumHours(_)
\* data_df["HOURS"].sum(): NULL hours are skipped.
SumHours(rows) ==
    IF rows = <<>> THEN 0
    ELSE (IF Head(rows).hours.t = "num" THEN Head(rows).hours.v ELSE 0) + SumHours(Tail(rows))

\* source = "trusted ledger" if not ledger_df.empty else "extracted lines"
ReconciliationSource(table, approvals) ==
    IF TrustedLedger(table, approvals) # <<>> THEN "trusted ledger" ELSE "extracted lines"

\* data_df = ledger_df if not ledger_df.empty else ext_df
ReconciliationData(table, approvals) ==
    IF ReconciliationSource(table, approvals) = "trusted ledger"
    THEN TrustedLedger(table, approvals)
    ELSE AllExtractedRows(table)

\* Page 6: the page reads the ledger and the extracted lines and shows the
\* totals of the chosen source.
ReconciliationPage ==
    /\ last' = [op |-> "reconciliation",
                source |-> ReconciliationSource(EXTRACTED_LINES, LEDGER_APPROVALS),
                data |-> ReconciliationData(EXTRACTED_LINES, LEDGER_APPROVALS),
                total_hours |-> SumHours(ReconciliationData(EXTRACTED_LINES, LEDGER_APPROVALS))]
    /\ UNCHANGED <<RECON_SUMMARY, crew, gt_session, cortex, judged,
                   reviewers, selected_doc, lines, doc_checks, line_checks, EXTRACTED_LINES,
                   VALIDATION_RESULTS, LEDGER_APPROVALS, GROUND_TRUTH_LINES, main>>

\* The lines under review: the two lines an extraction of a timesheet returned.
ReviewedLines ==
    << Line(Str("Mike"), Str("2025-09-13"), Str("P1"), Num(Hours(8)), Num(90)),
       Line(Str("Mike"), Str("2025-09-14"), Str("P2"), Num(Hours(4)), Num(50)) >>

\* The tables when review starts: d1 holds both lines, saved by one extraction
\* (line_ids L1, L2) or by two runs of run_extraction_cortex (both rows with
\* line_id L1); d2 holds the first line; d1 has validation checks and ground
\* truth; nothing is reviewed yet.
InitReview ==
    /\ lines = <<>>
    /\ doc_checks = <<>>
    /\ line_checks = <<>>
    /\ EXTRACTED_LINES \in
           { [d \in Docs |-> IF d = "d1" THEN rows ELSE StoredRows(d, SubSeq(ReviewedLines, 1, 1))] :
               rows \in { StoredRows("d1", ReviewedLines),
                          StoredRows("d1", SubSeq(ReviewedLines, 1, 1))
                              \o StoredRows("d1", SubSeq(ReviewedLines, 2, 2)) } }
    /\ VALIDATION_RESULTS =
           [d \in Docs |-> IF d = "d1"
                           THEN InsertChecks(d, << Check("WORKER_IDENTIFIABLE", "PASS", NoneVal) >>)
                           ELSE <<>>]
    /\ LEDGER_APPROVALS = EmptyBag
    /\ GROUND_TRUTH_LINES =
           [d \in Docs |-> IF d = "d1"
                           THEN << GroundTruthRow(d, Str("Mike"), Str(WeekDates[1]),
                                                  Str("P1"), Num(Hours(8))) >>
                           ELSE <<>>]
    /\ selected_doc = DocOrder[1]
    /\ main = MainIdle
    /\ reviewers = ReviewersIdle
    /\ RECON_SUMMARY = <<>>
    /\ crew = CrewIdle
    /\ gt_session = GtSessionIdle
    /\ cortex = CortexIdle
    /\ judged = NoneJudged
    /\ last = [op |-> "init"]

\* One reviewer at a time: every handler runs to its end before the next.
NextReview == Submit \/ ApproveAllLines \/ ClearAllApprovals \/ ReconciliationPage

SpecReview == InitReview /\ [][NextReview]_vars

\* Several reviewers.  run_execute commits each statement on its own, so the
\* statements of one reviewer's "Approve All Lines" loop interleave with the
\* statements of the others; a single MERGE or DELETE is atomic.

\* The decision written for a line was taken on the line as the reviewer's
\* page showed it.
JudgedWith(j, row) ==
    [x \in DOMAIN j \cup {row.line_id} |-> IF x = row.line_id THEN row ELSE j[x]]

\* Reviewer r presses "Approve All Lines": the loop starts over the lines_df
\* its page was drawn with.
BulkApproveStart(r) ==
    \E doc_id \in Docs :
        /\ reviewers[r].pc = "idle"
        /\ EXTRACTED_LINES[doc_id] # <<>>
        /\ reviewers' = [reviewers EXCEPT ![r] = [pc |-> "approving", doc_id |-> doc_id,
                                                  rows |-> EXTRACTED_LINES[doc_id]]]
        /\ last' = [op |-> "approve_all_start", doc_id |-> doc_id]
        /\ UNCHANGED <<RECON_SUMMARY, crew, gt_session, cortex, judged,
                   selected_doc, lines, doc_checks, line_checks, EXTRACTED_LINES,
                       VALIDATION_RESULTS, LEDGER_APPROVALS, GROUND_TRUTH_LINES, main>>

\* One iteration of the loop of reviewer r: the MERGE of the next row; after
\* the last row the handler ends (st.success, st.rerun).
BulkApproveStep(r) ==
    /\ reviewers[r].pc = "approving"
    /\ LEDGER_APPROVALS' = MergeApproved(LEDGER_APPROVALS, Head(reviewers[r].rows).line_id,
                                         reviewers[r].doc_id)
    /\ reviewers' = [reviewers EXCEPT ![r] =
                        IF Tail(reviewers[r].rows) = <<>>
                        THEN [pc |-> "idle", doc_id |-> "none", rows |-> <<>>]
                        ELSE [@ EXCEPT !.rows = Tail(@)]]
    /\ judged' = JudgedWith(judged, Head(reviewers[r].rows))
    /\ last' = [op |-> "approve_all_step", doc_id |-> reviewers[r].doc_id]
    /\ UNCHANGED <<RECON_SUMMARY, crew, gt_session, cortex,
                   selected_doc, lines, doc_checks, line_checks, EXTRACTED_LINES,
                   VALIDATION_RESULTS, GROUND_TRUTH_LINES, main>>

SubmitFew == SubmitWith(TRUE)

NextReviewers ==
    \/ \E r \in Reviewers : BulkApproveStart(r)
    \/ \E r \in Reviewers : BulkApproveStep(r)
    \/ SubmitFew
    \/ ClearAllApprovals

SpecReviewers == InitReview /\ [][NextReviewers]_vars

----------------------------------------------------------------------------
(* app.py page 4: accuracy of the extraction against ground truth *)

\* The join key of a line.
KeyOf(r) == <<r.work_date, r.project>>

KeysOf(rows) == { KeyOf(rows[i]) : i \in DOMAIN rows }

\* Hours of the rows with key k, summed; NULL hours add nothing.
HoursOfKey(rows, k) == SumHours(SelectSeq(rows, LAMBDA r : KeyOf(r) = k))

LineComparison(doc_id, k, gt_hours, ext_hours, hours_delta, status) ==
    [doc_id |-> doc_id, work_date |-> k[1], project |-> k[2], gt_hours |-> gt_hours,
     ext_hours |-> ext_hours, hours_delta |-> hours_delta, status |-> status]

Abs(x) == IF x < 0 THEN -x ELSE x

\* The comparison of one ground-truth key: MATCH when the summed hours differ
\* by less than 0.01, DISCREPANCY otherwise, MISSING_EXTRACTED when the
\* extraction has no line with the key.
CompareGtKey(doc_id, ext, gt, k) ==
    IF k \in KeysOf(ext)
    THEN LET g == HoursOfKey(gt, k)
             e == HoursOfKey(ext, k)
         IN  LineComparison(doc_id, k, Num(g), Num(e), Abs(g - e),
                            IF Abs(g - e) = 0 THEN "MATCH" ELSE "DISCREPANCY")
    ELSE LineComparison(doc_id, k, Num(HoursOfKey(gt, k)), NoneVal, 0, "MISSING_EXTRACTED")

\* compare(doc_id, extracted, ground_truth): one LineComparison per
\* ground-truth key, then one EXTRA_EXTRACTED per extracted key that the
\* ground truth lacks.
CompareLines(doc_id, ext, gt) ==
    LET gks == SeqOfSet(KeysOf(gt))
        eks == SeqOfSet(KeysOf(ext) \ KeysOf(gt))
    IN  [n \in DOMAIN gks |-> CompareGtKey(doc_id, ext, gt, gks[n])]
        \o [n \in DOMAIN eks |->
               LineComparison(doc_id, eks[n], NoneVal, Num(HoursOfKey(ext, eks[n])), 0,
                              "EXTRA_EXTRACTED")]

\* A percentage as an exact fraction num / den.
Pct(num, den) == [t |-> "pct", num |-> num, den |-> den]

\* hours_accuracy_pct of the totals, with the guards for a zero ground-truth
\* total.
HoursAccuracyPct(total_ext, total_gt) ==
    IF total_gt > 0 THEN Pct(100 * (total_gt - Abs(total_ext - total_gt)), total_gt)
    ELSE IF total_ext = 0 THEN Pct(100, 1)
    ELSE Pct(0, 1)

\* SELECT * FROM EXTRACTION_ACCURACY: the comparisons of every document,
\* each row with the document's totals and accuracy percentage.
ExtractionAccuracy(ext_table, gt_table) ==
    ConcatAll([i \in DOMAIN DocOrder |->
        LET d    == DocOrder[i]
            rows == CompareLines(d, ext_table[d], gt_table[d])
        IN  [n \in DOMAIN rows |->
                [cmp |-> rows[n],
                 doc_id |-> d,
                 total_gt_hours |-> Num(SumHours(gt_table[d])),
                 total_ext_hours |-> Num(SumHours(ext_table[d])),
                 hours_accuracy_pct |->
                     HoursAccuracyPct(SumHours(ext_table[d]), SumHours(gt_table[d]))]]])

\* CountMatchStatus that takes every row for a match.
CountMatchStatus_Any(doc_acc, status) == Len(doc_acc)

\* len(doc_acc[doc_acc["MATCH_STATUS"] == status])
CountMatchStatus(doc_acc, status) ==
    Len(SelectSeq(doc_acc, LAMBDA row : row.cmp.status = status))

\* AccuracyPctShown that replaces every value.
AccuracyPctShown_Zero(accuracy_pct) == Pct(0, 1)

\* accuracy_pct = doc_acc.iloc[0]["HOURS_ACCURACY_PCT"]; 0.0 when it is None or NaN
AccuracyPctShown(accuracy_pct) ==
    IF accuracy_pct = NoneVal THEN Pct(0, 1) ELSE accuracy_pct

\* The per-document block of page 4 for the rows doc_acc of one document.
DocumentAccuracy(doc_acc) ==
    [matched       |-> CountMatchStatus(doc_acc, "MATCH"),
     discrepancies |-> CountMatchStatus(doc_acc, "DISCREPANCY"),
     missing       |-> CountMatchStatus(doc_acc, "MISSING_EXTRACTED"),
     extra         |-> CountMatchStatus(doc_acc, "EXTRA_EXTRACTED"),
     accuracy_pct  |-> AccuracyPctShown(doc_acc[1].hours_accuracy_pct),
     total_gt      |-> OrZero(doc_acc[1].total_gt_hours).v,
     total_ext     |-> OrZero(doc_acc[1].total_ext_hours).v,
     rows          |-> [n \in DOMAIN doc_acc |-> doc_acc[n].cmp]]

\* Page 4: the view is read and one block is shown per document in it.
AccuracyPage ==
    LET accuracy_df  == ExtractionAccuracy(EXTRACTED_LINES, GROUND_TRUTH_LINES)
        docs_with_gt == { accuracy_df[n].doc_id : n \in DOMAIN accuracy_df }
    IN  /\ last' = [op |-> "accuracy",
                    docs |-> docs_with_gt,
                    shown |-> [d \in docs_with_gt |->
                                  DocumentAccuracy(SelectSeq(accuracy_df,
                                                             LAMBDA row : row.doc_id = d))]]
        /\ UNCHANGED <<RECON_SUMMARY, crew, gt_session, cortex, judged,
                   reviewers, selected_doc, lines, doc_checks, line_checks, EXTRACTED_LINES,
                       VALIDATION_RESULTS, LEDGER_APPROVALS, GROUND_TRUTH_LINES, main>>

\* Most lines of one kind (extracted, ground truth) a compared document has.
MaxCompared == 2

\* Extracted lines of the compared document: 8.0 and 4.0 hours on the same
\* day and project, 4.0 hours on another, and a line of 0.0 hours.
ComparedLineInputs ==
    { Line(Str("Mike"), Str("2025-09-13"), Str("P1"), Num(Hours(8)), Num(90)),
      Line(Str("Mike"), Str("2025-09-13"), Str("P1"), Num(Hours(4)), Num(90)),
      Line(Str("Mike"), Str("2025-09-14"), Str("P2"), Num(Hours(4)), Num(50)),
      Line(Str("Mike"), Str("2025-09-15"), Str("P1"), Num(0), Num(50)) }

\* Ground-truth cells as "Save Ground Truth" stores them (hours > 0).
GroundTruthInputs(doc_id) ==
    { GroundTruthRow(doc_id, Str("Mike"), Str("2025-09-13"), Str("P1"), Num(Hours(8))),
      GroundTruthRow(doc_id, Str("Mike"), Str("2025-09-13"), Str("P1"), Num(Hours(4))),
      GroundTruthRow(doc_id, Str("Mike"), Str("2025-09-14"), Str("P1"), Num(Hours(8))) }

\* The tables when page 4 is opened: d1 has any extracted lines and ground
\* truth, d2 has no ground truth and no line, a line of 0.0 hours or a line of
\* 8.0 hours.
InitAccuracy ==
    /\ lines = <<>>
    /\ doc_checks = <<>>
    /\ line_checks = <<>>
    /\ \E l1 \in SeqsUpTo(ComparedLineInputs, MaxCompared) :
       \E l2 \in { <<>>,
                   << Line(Str("Ann"), Str("2025-09-15"), Str("P1"), Num(0), Num(50)) >>,
                   << Line(Str("Ann"), Str("2025-09-13"), Str("P1"), Num(Hours(8)), Num(90)) >> } :
           EXTRACTED_LINES = [d \in Docs |-> IF d = "d1" THEN StoredRows(d, l1)
                                              ELSE StoredRows(d, l2)]
    /\ VALIDATION_RESULTS = EmptyTable
    /\ LEDGER_APPROVALS = EmptyBag
    /\ \E g \in SeqsUpTo(GroundTruthInputs("d1"), MaxCompared) :
           GROUND_TRUTH_LINES = [d \in Docs |-> IF d = "d1" THEN g ELSE <<>>]
    /\ selected_doc = DocOrder[1]
    /\ main = MainIdle
    /\ reviewers = ReviewersIdle
    /\ RECON_SUMMARY = <<>>
    /\ crew = CrewIdle
    /\ gt_session = GtSessionIdle
    /\ cortex = CortexIdle
    /\ judged = NoneJudged
    /\ last = [op |-> "init"]

NextAccuracy == AccuracyPage

SpecAccuracy == InitAccuracy /\ [][NextAccuracy]_vars

----------------------------------------------------------------------------
(* crew.py: TimesheetReconciliationCrew.run, statement by statement.  The    *)
(* connection is opened without an autocommit argument (crew.py:406-413),   *)
(* so the session commits every statement as it completes and the           *)
(* conn.commit() that ends each save finds nothing left to commit.  Every   *)
(* document is taken to be a TIMESHEET.                                     *)

\* Runs of the pipeline in one behaviour.
MaxCrewRuns == 2

\* The doc_ids argument of run.
DocIdLists == { <<"d1">>, <<"d1", "d2">>, <<"d2", "d1">> }

\* Lines the extraction agent returns for a document: none, the first line
\* under review, or both lines with the hours of the first read as 6.5.
CrewResults ==
    { <<>>,
      << ReviewedLines[1] >>,
      << Line(Str("Mike"), Str("2025-09-13"), Str("P1"), Num(13), Num(90)),
         ReviewedLines[2] >> }

\* Results the reconciliation task returns, projected on the period and the
\* approved hours.
ReconResults ==
    { [period_month |-> "2025-09", period_quarter |-> "2025-Q3", approved_hours |-> Num(Hours(12))],
      [period_month |-> "2025-09", period_quarter |-> "2025-Q3", approved_hours |-> Num(Hours(8))] }

\* The three tables save_extracted_lines writes.
Tables(approvals, validations, extracted) ==
    [approvals |-> approvals, validations |-> validations, extracted |-> extracted]

\* save_extracted_lines, the statement at position s.stmt applied to the
\* tables t: the three DELETEs, then one INSERT per line.
SaveStatement(t, s) ==
    CASE s.stmt = 1 -> [t EXCEPT !.approvals = DeleteDoc(@, s.doc_id)]
      [] s.stmt = 2 -> [t EXCEPT !.validations[s.doc_id] = <<>>]
      [] s.stmt = 3 -> [t EXCEPT !.extracted[s.doc_id] = <<>>]
      [] OTHER      -> [t EXCEPT !.extracted[s.doc_id] = Append(@, Head(s.pending))]

\* The call returns after the DELETEs when there is no line, and after the
\* INSERT of the last line otherwise.
SaveReturns(s) ==
    \/ s.stmt = 3 /\ s.pending = <<>>
    \/ s.stmt = 4 /\ Tail(s.pending) = <<>>

\* save_extracted_lines after the statement at s.stmt.
SaveAdvance(s) ==
    IF s.stmt < 4 THEN [s EXCEPT !.stmt = @ + 1]
    ELSE [s EXCEPT !.pending = Tail(@)]

\* EndOfDocument that leaves the extraction loop after its first document.
EndOfDocument_Early(c) ==
    [c EXCEPT !.pc = "validate", !.todo = c.extractions, !.saving = NoSave]

\* The end of one iteration of the extraction loop: the next document, or
\* the validation loop over the extractions when doc_ids is exhausted.
EndOfDocument(c) ==
    IF Tail(c.todo) = <<>>
    THEN [c EXCEPT !.pc = "validate", !.todo = c.extractions, !.saving = NoSave]
    ELSE [c EXCEPT !.pc = "extract", !.todo = Tail(@), !.saving = NoSave]

\* save_reconciliation with an upsert on the period.
save_reconciliation_Upsert(table, recon_result) ==
    IF \E i \in DOMAIN table : table[i].period_month = recon_result.period_month
    THEN [i \in DOMAIN table |->
             IF table[i].period_month = recon_result.period_month
             THEN recon_result ELSE table[i]]
    ELSE Append(table, recon_result)

\* save_reconciliation: INSERT INTO RECON_SUMMARY, nothing else.
save_reconciliation(table, recon_result) == Append(table, recon_result)

\* get_ground_truth: the document's rows (the ORDER BY is left out, the rows
\* are used as a set), hours as float(row[3]) if row[3] else 0.
get_ground_truth(table, doc_id) ==
    [i \in DOMAIN table[doc_id] |->
        [worker |-> table[doc_id][i].worker, work_date |-> table[doc_id][i].work_date,
         project |-> table[doc_id][i].project, hours |-> OrZero(table[doc_id][i].hours)]]

\* run(doc_ids, save_to_snowflake=...) is called.
CrewRunStart ==
    /\ crew.pc \in {"idle", "done", "raised"}
    /\ crew.runs < MaxCrewRuns
    /\ \E doc_ids \in DocIdLists, save \in BOOLEAN :
           crew' = [pc |-> "extract", save_to_snowflake |-> save, doc_ids |-> doc_ids,
                    todo |-> doc_ids, extractions |-> <<>>, validations |-> <<>>,
                    accuracy_reports |-> <<>>, reconciliation |-> NoneVal,
                    saving |-> NoSave, runs |-> crew.runs + 1]
    /\ last' = [op |-> "crew_run"]
    /\ UNCHANGED <<RECON_SUMMARY, gt_session, cortex, judged, reviewers, selected_doc, lines,
                   doc_checks, line_checks, EXTRACTED_LINES, VALIDATION_RESULTS,
                   LEDGER_APPROVALS, GROUND_TRUTH_LINES, main>>

\* Phase 1, one document: get_ocr_text and run_extraction return, the
\* extraction is appended and save_extracted_lines is entered when saving.
CrewExtract ==
    /\ crew.pc = "extract"
    /\ \E ls \in CrewResults :
           LET doc_id == Head(crew.todo)
               c      == [crew EXCEPT !.extractions =
                                          Append(@, [doc_id |-> doc_id, lines |-> ls])]
           IN  crew' = IF crew.save_to_snowflake
                       THEN [c EXCEPT !.pc = "saving",
                                      !.saving = [doc_id |-> doc_id, stmt |-> 1,
                                                  pending |-> StoredRows(doc_id, ls),
                                                  lines |-> ls,
                                                  before |-> Tables(LEDGER_APPROVALS,
                                                                    VALIDATION_RESULTS,
                                                                    EXTRACTED_LINES)]]
                       ELSE EndOfDocument(c)
    /\ last' = [op |-> "crew_extract", doc_id |-> Head(crew.todo)]
    /\ UNCHANGED <<RECON_SUMMARY, gt_session, cortex, judged, reviewers, selected_doc, lines,
                   doc_checks, line_checks, EXTRACTED_LINES, VALIDATION_RESULTS,
                   LEDGER_APPROVALS, GROUND_TRUTH_LINES, main>>

\* Phase 1, one document: get_ocr_text raises (the document is not in
\* RAW_DOCUMENTS) or run_extraction raises (the agent fails, or its output
\* has no parsed model); run has no handler, the exception leaves run.
CrewExtractFails ==
    /\ crew.pc = "extract"
    /\ crew' = [crew EXCEPT !.pc = "raised"]
    /\ last' = [op |-> "crew_extract_failed", doc_id |-> Head(crew.todo),
                remaining |-> Tail(crew.todo)]
    /\ UNCHANGED <<RECON_SUMMARY, gt_session, cortex, judged, reviewers, selected_doc, lines,
                   doc_checks, line_checks, EXTRACTED_LINES, VALIDATION_RESULTS,
                   LEDGER_APPROVALS, GROUND_TRUTH_LINES, main>>

\* save_extracted_lines executes its next statement; after the last one it
\* returns and the loop of phase 1 goes on.
CrewSaveStep ==
    /\ crew.pc = "saving"
    /\ LET s == crew.saving
           t == SaveStatement(Tables(LEDGER_APPROVALS, VALIDATION_RESULTS, EXTRACTED_LINES), s)
       IN  /\ LEDGER_APPROVALS' = t.approvals
           /\ VALIDATION_RESULTS' = t.validations
           /\ EXTRACTED_LINES' = t.extracted
           /\ crew' = IF SaveReturns(s) THEN EndOfDocument(crew)
                      ELSE [crew EXCEPT !.saving = SaveAdvance(s)]
           /\ last' = [op |-> "crew_save_statement", doc_id |-> s.doc_id, stmt |-> s.stmt,
                       returns |-> SaveReturns(s)]
    /\ UNCHANGED <<RECON_SUMMARY, gt_session, cortex, judged, reviewers, selected_doc, lines,
                   doc_checks, line_checks, GROUND_TRUTH_LINES, main>>

\* An INSERT of save_extracted_lines raises: the cursor is closed and the
\* exception leaves save_extracted_lines and run.
CrewSaveFails ==
    /\ crew.pc = "saving"
    /\ crew.saving.stmt = 4
    /\ crew.saving.pending # <<>>
    /\ crew' = [crew EXCEPT !.pc = "raised"]
    /\ last' = [op |-> "crew_save_failed", doc_id |-> crew.saving.doc_id]
    /\ UNCHANGED <<RECON_SUMMARY, gt_session, cortex, judged, reviewers, selected_doc, lines,
                   doc_checks, line_checks, EXTRACTED_LINES, VALIDATION_RESULTS,
                   LEDGER_APPROVALS, GROUND_TRUTH_LINES, main>>

\* Phase 2, one extraction: run_validation returns and its result is saved.
CrewValidate ==
    /\ crew.pc = "validate"
    /\ LET doc_id == Head(crew.todo).doc_id
       IN  \E checks \in AgentCheckLists(doc_id) :
               /\ VALIDATION_RESULTS' =
                      IF crew.save_to_snowflake
                      THEN crew_save_validation_results(VALIDATION_RESULTS, doc_id, checks)
                      ELSE VALIDATION_RESULTS
               /\ crew' = [crew EXCEPT
                      !.validations = Append(@, [doc_id |-> doc_id, checks |-> checks,
                                                 extraction |-> Head(crew.todo)]),
                      !.pc = IF Tail(crew.todo) = <<>> THEN "ground_truth" ELSE "validate",
                      !.todo = IF Tail(crew.todo) = <<>> THEN crew.extractions ELSE Tail(@)]
               /\ last' = [op |-> "crew_validate", doc_id |-> doc_id]
    /\ UNCHANGED <<RECON_SUMMARY, gt_session, cortex, judged, reviewers, selected_doc, lines,
                   doc_checks, line_checks, EXTRACTED_LINES,
                   LEDGER_APPROVALS, GROUND_TRUTH_LINES, main>>

\* Phase 3, one extraction: the ground truth is read and, when there is any,
\* compared with the extraction.
CrewGroundTruth ==
    /\ crew.pc = "ground_truth"
    /\ LET doc_id   == Head(crew.todo).doc_id
           gt_lines == get_ground_truth(GROUND_TRUTH_LINES, doc_id)
       IN  /\ crew' = [crew EXCEPT
                  !.accuracy_reports =
                      IF gt_lines # <<>>
                      THEN Append(@, [doc_id |-> doc_id, extraction |-> Head(crew.todo),
                                      ground_truth |-> gt_lines])
                      ELSE @,
                  !.pc = IF Tail(crew.todo) = <<>> THEN "reconcile" ELSE "ground_truth",
                  !.todo = IF Tail(crew.todo) = <<>> THEN <<>> ELSE Tail(@)]
           /\ last' = [op |-> "get_ground_truth", doc_id |-> doc_id, rows |-> gt_lines,
                       session |-> gt_session]
    /\ UNCHANGED <<RECON_SUMMARY, gt_session, cortex, judged, reviewers, selected_doc, lines,
                   doc_checks, line_checks, EXTRACTED_LINES, VALIDATION_RESULTS,
                   LEDGER_APPROVALS, GROUND_TRUTH_LINES, main>>

\* Phase 4: run_reconciliation over the extractions of the run, then
\* save_reconciliation when saving; run returns.
CrewReconcile ==
    /\ crew.pc = "reconcile"
    /\ \E recon \in ReconResults :
           /\ RECON_SUMMARY' = IF crew.save_to_snowflake
                               THEN save_reconciliation(RECON_SUMMARY, recon)
                               ELSE RECON_SUMMARY
           /\ crew' = [crew EXCEPT !.pc = "done",
                                   !.reconciliation = [result |-> recon,
                                                       timesheets |-> crew.extractions]]
           /\ last' = [op |-> "crew_reconcile", saved |-> crew.save_to_snowflake,
                       recon |-> recon]
    /\ UNCHANGED <<gt_session, cortex, judged, reviewers, selected_doc, lines,
                   doc_checks, line_checks, EXTRACTED_LINES, VALIDATION_RESULTS,
                   LEDGER_APPROVALS, GROUND_TRUTH_LINES, main>>

\* The tables when the pipeline is run again over reviewed documents: d1
\* holds both lines and d2 the first, every line is approved, d1 has
\* validation checks and ground truth.
InitCrew ==
    /\ lines = <<>>
    /\ doc_checks = <<>>
    /\ line_checks = <<>>
    /\ EXTRACTED_LINES = [d \in Docs |-> IF d = "d1" THEN StoredRows(d, ReviewedLines)
                                          ELSE StoredRows(d, SubSeq(ReviewedLines, 1, 1))]
    /\ VALIDATION_RESULTS =
           [d \in Docs |-> IF d = "d1"
                           THEN InsertChecks(d, << Check("WORKER_IDENTIFIABLE", "PASS", NoneVal) >>)
                           ELSE <<>>]
    /\ LEDGER_APPROVALS =
           ApproveRows(ApproveRows(EmptyBag, StoredRows("d1", ReviewedLines), "d1"),
                       StoredRows("d2", SubSeq(ReviewedLines, 1, 1)), "d2")
    /\ GROUND_TRUTH_LINES =
           [d \in Docs |-> IF d = "d1"
                           THEN << GroundTruthRow(d, Str("Mike"), Str(WeekDates[1]),
                                                  Str("P1"), Num(Hours(8))) >>
                           ELSE <<>>]
    /\ selected_doc = DocOrder[1]
    /\ main = MainIdle
    /\ reviewers = ReviewersIdle
    /\ RECON_SUMMARY = <<>>
    /\ crew = CrewIdle
    /\ gt_session = GtSessionIdle
    /\ cortex = CortexIdle
    /\ judged = NoneJudged
    /\ last = [op |-> "init"]

NextCrew ==
    \/ CrewRunStart
    \/ CrewExtract
    \/ CrewExtractFails
    \/ CrewSaveStep
    \/ CrewSaveFails
    \/ CrewValidate
    \/ CrewGroundTruth
    \/ CrewReconcile

SpecCrew == InitCrew /\ [][NextCrew]_vars

----------------------------------------------------------------------------
(* app.py page 5 while the pipeline extracts the document again.  The crew  *)
(* runs in its own process on its own connection.                           *)

\* Reviewer r opens page 5 for a document: the script queries lines_df and
\* draws one expander per line.
PageLoad(r) ==
    \E doc_id \in Docs :
        /\ reviewers[r].pc = "idle"
        /\ EXTRACTED_LINES[doc_id] # <<>>
        /\ reviewers' = [reviewers EXCEPT ![r] = [pc |-> "viewing", doc_id |-> doc_id,
                                                  rows |-> EXTRACTED_LINES[doc_id]]]
        /\ last' = [op |-> "page_load", doc_id |-> doc_id]
        /\ UNCHANGED <<RECON_SUMMARY, crew, gt_session, cortex, judged, selected_doc, lines,
                       doc_checks, line_checks, EXTRACTED_LINES, VALIDATION_RESULTS,
                       LEDGER_APPROVALS, GROUND_TRUTH_LINES, main>>

\* Reviewer r fills the form of a line on the page drawn before and presses
\* its "Submit".  The click reruns the script: lines_df is queried again
\* and the MERGE runs if a button with the key of the clicked one
\* (f"sub_{line_id}") is drawn, with the widget values the reviewer set.
SubmitFromPage(r) ==
    /\ reviewers[r].pc = "viewing"
    /\ LET doc_id == reviewers[r].doc_id
           now    == EXTRACTED_LINES[doc_id]
       IN  \E i \in DOMAIN reviewers[r].rows :
               LET row == reviewers[r].rows[i]
               IN  /\ SubmitShown(reviewers[r].rows, i)
                   /\ \E j \in DOMAIN now : now[j].line_id = row.line_id /\ SubmitShown(now, j)
                   /\ \E f \in FewFormInputs(row) :
                          /\ LEDGER_APPROVALS' =
                                 MergeDecision(LEDGER_APPROVALS, row.line_id, doc_id, f)
                          /\ last' = [op |-> "submit_from_page", doc_id |-> doc_id,
                                      row |-> row, form |-> f]
                   /\ judged' = JudgedWith(judged, row)
    /\ reviewers' = [reviewers EXCEPT ![r] = [pc |-> "idle", doc_id |-> "none", rows |-> <<>>]]
    /\ UNCHANGED <<RECON_SUMMARY, crew, gt_session, cortex, selected_doc, lines,
                   doc_checks, line_checks, EXTRACTED_LINES, VALIDATION_RESULTS,
                   GROUND_TRUTH_LINES, main>>

\* A run of the pipeline over one document extracts it again and saves the
\* result; the run is taken up to the return of save_extracted_lines.
Reextract ==
    /\ crew.pc = "idle"
    /\ crew.runs < MaxCrewRuns
    /\ \E doc_id \in Docs : \E ls \in CrewResults : SaveExtractedLines(doc_id, ls)
    /\ crew' = [crew EXCEPT !.runs = @ + 1]
    /\ UNCHANGED <<RECON_SUMMARY, gt_session, cortex, judged, reviewers, selected_doc, lines,
                   doc_checks, line_checks, GROUND_TRUTH_LINES, main>>

\* The reviewer whose page is followed while the pipeline runs.
StaleReviewer == CHOOSE r \in Reviewers : TRUE

NextStale ==
    \/ PageLoad(StaleReviewer)
    \/ SubmitFromPage(StaleReviewer)
    \/ BulkApproveStart(StaleReviewer)
    \/ BulkApproveStep(StaleReviewer)
    \/ Reextract

SpecStale == InitReview /\ [][NextStale]_vars

----------------------------------------------------------------------------
(* app.py page 3, "Save Ground Truth" statement by statement: run_execute   *)
(* commits after every statement, so the state after each DELETE and INSERT *)
(* is what another connection reads.                                        *)

\* "Save Ground Truth" is pressed: the DELETE is executed and the loop over
\* the cells of the grid starts; without a filled cell the handler ends.
SaveGroundTruthStart ==
    /\ gt_session.pc = "idle"
    /\ \E grid \in GridInputs :
           LET rows == InsertGrid(selected_doc, Str("Mike"), grid)
           IN  /\ GROUND_TRUTH_LINES' = [GROUND_TRUTH_LINES EXCEPT ![selected_doc] = <<>>]
               /\ gt_session' =
                      IF rows = <<>> THEN GtSessionIdle
                      ELSE [pc |-> "saving", doc_id |-> selected_doc, pending |-> rows,
                            rows |-> rows, before |-> GROUND_TRUTH_LINES[selected_doc]]
               /\ last' = [op |-> "save_ground_truth_delete", doc_id |-> selected_doc,
                           grid |-> grid]
    /\ UNCHANGED <<RECON_SUMMARY, crew, cortex, judged, reviewers, selected_doc, lines,
                   doc_checks, line_checks, EXTRACTED_LINES, VALIDATION_RESULTS,
                   LEDGER_APPROVALS, main>>

\* The INSERT of the next filled cell; after the last one the handler ends.
SaveGroundTruthStep ==
    /\ gt_session.pc = "saving"
    /\ GROUND_TRUTH_LINES' = [GROUND_TRUTH_LINES EXCEPT
                                 ![gt_session.doc_id] = Append(@, Head(gt_session.pending))]
    /\ gt_session' = IF Tail(gt_session.pending) = <<>> THEN GtSessionIdle
                     ELSE [gt_session EXCEPT !.pending = Tail(@)]
    /\ last' = [op |-> "save_ground_truth_insert", doc_id |-> gt_session.doc_id]
    /\ UNCHANGED <<RECON_SUMMARY, crew, cortex, judged, reviewers, selected_doc, lines,
                   doc_checks, line_checks, EXTRACTED_LINES, VALIDATION_RESULTS,
                   LEDGER_APPROVALS, main>>

\* A pipeline running at the same time calls get_ground_truth(doc_id).
ReadGroundTruth ==
    \E doc_id \in Docs :
        /\ last' = [op |-> "get_ground_truth", doc_id |-> doc_id,
                    rows |-> get_ground_truth(GROUND_TRUTH_LINES, doc_id),
                    session |-> gt_session]
        /\ UNCHANGED <<RECON_SUMMARY, crew, gt_session, cortex, judged, reviewers,
                       selected_doc, lines, doc_checks, line_checks, EXTRACTED_LINES,
                       VALIDATION_RESULTS, LEDGER_APPROVALS, GROUND_TRUTH_LINES, main>>

NextGTReaders == SaveGroundTruthStart \/ SaveGroundTruthStep \/ ReadGroundTruth

SpecGTReaders == InitGT /\ [][NextGTReaders]_vars

----------------------------------------------------------------------------
(* run_extraction_cortex.main followed by run_validation.main *)

\* main up to the loop: every document of RAW_DOCUMENTS is listed in doc_id
\* order and all_results is empty.  The scripts are run one after the other.
CortexMainStart ==
    /\ cortex.pc \in {"idle", "done"}
    /\ main.pc # "loop"
    /\ cortex.runs < MaxRuns
    /\ cortex' = [pc |-> "loop", todo |-> DocOrder,
                  all_results |-> [d \in Docs |-> NoneVal], runs |-> cortex.runs + 1]
    /\ last' = [op |-> "cortex_main_start"]
    /\ UNCHANGED <<RECON_SUMMARY, crew, gt_session, judged, reviewers, selected_doc, lines,
                   doc_checks, line_checks, EXTRACTED_LINES, VALIDATION_RESULTS,
                   LEDGER_APPROVALS, GROUND_TRUTH_LINES, main>>

\* One iteration of the loop: extract_with_cortex returns a result (lines []
\* when the response does not parse), the result is recorded in all_results
\* and saved when it has lines.
CortexMainExtract ==
    /\ cortex.pc = "loop"
    /\ cortex.todo # <<>>
    /\ LET doc_id == Head(cortex.todo)
       IN  \E ls \in ExtractionResults :
               /\ Len(EXTRACTED_LINES[doc_id]) + Len(ls) <= MaxRows
               /\ EXTRACTED_LINES' =
                      IF Len(ls) > 0
                      THEN cortex_save_extracted_lines(EXTRACTED_LINES, doc_id, ls)
                      ELSE EXTRACTED_LINES
               /\ cortex' = [cortex EXCEPT
                                 !.all_results[doc_id] = [error |-> FALSE, lines |-> ls],
                                 !.todo = Tail(@)]
               /\ last' = [op |-> "cortex_main_extract", doc_id |-> doc_id, lines |-> ls]
    /\ UNCHANGED <<RECON_SUMMARY, crew, gt_session, judged, reviewers, selected_doc, lines,
                   doc_checks, line_checks, VALIDATION_RESULTS,
                   LEDGER_APPROVALS, GROUND_TRUTH_LINES, main>>

\* One iteration of the loop in which extract_with_cortex raises: the error
\* is recorded with lines [] and the loop goes on.
CortexMainExtractFails ==
    /\ cortex.pc = "loop"
    /\ cortex.todo # <<>>
    /\ cortex' = [cortex EXCEPT
                      !.all_results[Head(cortex.todo)] = [error |-> TRUE, lines |-> <<>>],
                      !.todo = Tail(@)]
    /\ last' = [op |-> "cortex_main_extract_failed", doc_id |-> Head(cortex.todo)]
    /\ UNCHANGED <<RECON_SUMMARY, crew, gt_session, judged, reviewers, selected_doc, lines,
                   doc_checks, line_checks, EXTRACTED_LINES, VALIDATION_RESULTS,
                   LEDGER_APPROVALS, GROUND_TRUTH_LINES, main>>

\* main after the loop: the results are written out and returned.
CortexMainFinish ==
    /\ cortex.pc = "loop"
    /\ cortex.todo = <<>>
    /\ cortex' = [cortex EXCEPT !.pc = "done"]
    /\ last' = [op |-> "cortex_main_finish"]
    /\ UNCHANGED <<RECON_SUMMARY, crew, gt_session, judged, reviewers, selected_doc, lines,
                   doc_checks, line_checks, EXTRACTED_LINES, VALIDATION_RESULTS,
                   LEDGER_APPROVALS, GROUND_TRUTH_LINES, main>>

\* run_validation.py is started once the extraction script has ended.
ScriptsMainStart == cortex.pc = "done" /\ MainStart

NextScripts ==
    \/ CortexMainStart
    \/ CortexMainExtract
    \/ CortexMainExtractFails
    \/ CortexMainFinish
    \/ ScriptsMainStart
    \/ MainValidateDoc
    \/ MainFinish

SpecScripts == Init /\ [][NextScripts]_vars

----------------------------------------------------------------------------
(* Claims about the validation functions *)

\* A value the data model allows for a numeric field: a number or missing.
NumericOrMissing(x) == x.t \in {"num", "none"}

WellTyped(ls) ==
    \A i \in DOMAIN ls : /\ NumericOrMissing(ls[i].hours)
                         /\ NumericOrMissing(ls[i].extraction_confidence)

RECURSIVE HoursTotal(_)
\* Sum of the hours of well-typed lines, a missing value counting as 0.
HoursTotal(ls) ==
    IF ls = <<>> THEN 0
    ELSE (IF Head(ls).hours.t = "num" THEN Head(ls).hours.v ELSE 0) + HoursTotal(Tail(ls))

StatusOf(checks, rule) ==
    { checks[i].status : i \in { j \in DOMAIN checks : checks[j].rule_name = rule } }

\* C1: for every list of lines with numeric or missing hours and confidence,
\* run_document_validation emits TOTAL_HOURS_REASONABLE exactly once, FAIL
\* when the sum of hours is 0, PASS when 0 < sum <= 60, WARN when sum > 60.
C1_TotalHoursReasonable ==
    (doc_checks # <<>> /\ WellTyped(lines)) =>
        LET r == doc_checks[1]
            s == StatusOf(r.checks, "TOTAL_HOURS_REASONABLE")
            t == HoursTotal(lines)
        IN  /\ ~r.raised
            /\ Len(SelectSeq(r.checks, LAMBDA c : c.rule_name = "TOTAL_HOURS_REASONABLE")) = 1
            /\ (t = 0 => s = {"FAIL"})
            /\ ((0 < t /\ t <= Hours(60)) => s = {"PASS"})
            /\ (t > Hours(60) => s = {"WARN"})

\* C1 witness: a list with a missing hours value whose total is over 60 has
\* been validated and flagged WARN.
C1_Witness ==
    /\ doc_checks # <<>>
    /\ WellTyped(lines)
    /\ \E i \in DOMAIN lines : lines[i].hours = NoneVal
    /\ HoursTotal(lines) > Hours(60)
    /\ StatusOf(doc_checks[1].checks, "TOTAL_HOURS_REASONABLE") = {"WARN"}

\* What the specification says HOURS_IN_RANGE is for an hours value.
HoursInRangeExpected(hours) ==
    LET f == FloatOf(hours)
    IN  IF hours.t = "none" \/ ~f.ok \/ f.v < 0 THEN "FAIL"
        ELSE IF f.v > Hours(24) THEN "WARN" ELSE "PASS"

\* C2: run_line_validation emits HOURS_IN_RANGE with FAIL when hours is
\* missing, negative or non-numeric, WARN when hours > 24, PASS when
\* 0 <= hours <= 24.
C2_HoursInRange ==
    \A i \in DOMAIN line_checks :
        StatusOf(line_checks[i], "HOURS_IN_RANGE") = { HoursInRangeExpected(lines[i].hours) }

\* A field that is empty or absent: None or the empty string.
EmptyOrAbsent(x) == x.t = "none" \/ (x.t = "str" /\ x.s = "")

\* C3: REQUIRED_FIELDS_PRESENT is FAIL exactly when one of worker,
\* work_date, hours is empty or absent, and PASS otherwise; a present hours
\* value of 0 is not a missing field.
C3_RequiredFieldsPresent ==
    \A i \in DOMAIN line_checks :
        StatusOf(line_checks[i], "REQUIRED_FIELDS_PRESENT") =
            { IF \E f \in {"worker", "work_date", "hours"} : EmptyOrAbsent(lines[i][f])
              THEN "FAIL" ELSE "PASS" }

\* C4: validation never raises on malformed line content: every call of
\* run_document_validation and run_line_validation returns its checks.
C4_NeverRaises ==
    /\ (doc_checks # <<>> => (~doc_checks[1].raised /\ Len(doc_checks[1].checks) = 4))
    /\ \A i \in DOMAIN line_checks : Len(line_checks[i]) = 3

----------------------------------------------------------------------------
(* Claims about run_validation.main and the saved checks *)

DocumentRules ==
    <<"WORKER_IDENTIFIABLE", "DATES_PRESENT", "TOTAL_HOURS_REASONABLE", "EXTRACTION_CONFIDENCE">>

LineRules == {"VALID_DATE_FORMAT", "HOURS_IN_RANGE", "REQUIRED_FIELDS_PRESENT"}

ChecksOfLine(checks, line_id) == SelectSeq(checks, LAMBDA c : c.line_id = line_id)

\* The three line-level checks, each once.
HasLineChecks(checks, line_id) ==
    LET cs == ChecksOfLine(checks, line_id)
    IN  Len(cs) = 3 /\ { cs[i].rule_name : i \in DOMAIN cs } = LineRules

HasDocumentChecks(checks) ==
    /\ Len(checks) >= 4
    /\ \A i \in 1..4 : checks[i].rule_name = DocumentRules[i] /\ checks[i].line_id = NoneVal
    /\ Len(ChecksOfLine(checks, NoneVal)) = 4

\* The documents main has validated in its current run.
Validated == { d \in Docs : main.all_results[d] # <<>> }

\* C5 as stated: a validation run over n lines produces the four document
\* checks and the three line checks for each of the n lines.
C5_AllLinesChecked ==
    \A d \in Validated :
        /\ HasDocumentChecks(main.all_results[d])
        /\ \A i \in DOMAIN EXTRACTED_LINES[d] :
              HasLineChecks(main.all_results[d], EXTRACTED_LINES[d][i].line_id)

\* C5 amended: a validation run over n lines produces the four document
\* checks and the three line checks for each of the first min(n, 5) lines
\* read; later lines get no line-level check.
C5_FirstFiveLinesChecked ==
    \A d \in Validated :
        LET rows   == EXTRACTED_LINES[d]
            checks == main.all_results[d]
            k      == IF Len(rows) <= 5 THEN Len(rows) ELSE 5
        IN  /\ HasDocumentChecks(checks)
            /\ Len(checks) = 4 + 3 * k
            /\ \A i \in DOMAIN rows :
                  IF i <= k THEN HasLineChecks(checks, rows[i].line_id)
                  ELSE ChecksOfLine(checks, rows[i].line_id) = <<>>

\* C5 witness: main has validated a document of six lines.
C5_Witness ==
    /\ "d1" \in Validated
    /\ Len(EXTRACTED_LINES["d1"]) = 6
    /\ Len(main.all_results["d1"]) = 19

RECURSIVE Flatten(_)
Flatten(ss) == IF ss = <<>> THEN <<>> ELSE Head(ss) \o Flatten(Tail(ss))

\* Every check of main's current run.
RunChecks == Flatten([i \in DOMAIN DocOrder |-> main.all_results[DocOrder[i]]])

\* C6: the overall status reported for the checks is FAIL if any check is
\* FAIL, otherwise WARN if any check is WARN, otherwise PASS.
C6_OverallStatus ==
    main.pc = "done" =>
        main.overall =
            IF \E i \in DOMAIN RunChecks : RunChecks[i].status = "FAIL" THEN "FAIL"
            ELSE IF \E i \in DOMAIN RunChecks : RunChecks[i].status = "WARN" THEN "WARN"
            ELSE "PASS"

\* C9: a validation run for a document leaves VALIDATION_RESULTS holding,
\* for that document, exactly the checks of that run, whichever function
\* saved them.
C9_ValidationReplaced ==
    /\ (last.op = "main_validate" /\ main.pc # "raised") =>
          VALIDATION_RESULTS[last.doc_id] =
              InsertChecks(last.doc_id, main.all_results[last.doc_id])
    /\ last.op = "crew_save_validation" =>
          VALIDATION_RESULTS[last.doc_id] = InsertChecks(last.doc_id, last.checks)

----------------------------------------------------------------------------
(* Claims about re-extraction *)

\* The approval rows of a document.
ApprovalsOf(bag, doc_id) ==
    LET own == { r \in BagToSet(bag) : r.doc_id = doc_id }
    IN  [r \in own |-> bag[r]]

\* The last step saved an extraction result for last.doc_id.
ExtractionSaved(l) ==
    \/ l.op = "crew_save_extracted"
    \/ l.op = "cortex_extract" /\ Len(l.lines) > 0

\* C7: once a re-run extraction is saved for a document, the document has
\* no validation check and no approval decision, and the checks and
\* decisions of every other document are as before.
C7_ReextractionCascades ==
    [][ (ExtractionSaved(last') /\ EXTRACTED_LINES[last'.doc_id] # <<>>) =>
          /\ VALIDATION_RESULTS'[last'.doc_id] = <<>>
          /\ ApprovalsOf(LEDGER_APPROVALS', last'.doc_id) = EmptyBag
          /\ \A d \in Docs \ {last'.doc_id} :
                /\ VALIDATION_RESULTS'[d] = VALIDATION_RESULTS[d]
                /\ ApprovalsOf(LEDGER_APPROVALS', d) = ApprovalsOf(LEDGER_APPROVALS, d) ]_vars

\* C8: after an extraction run for a document, EXTRACTED_LINES holds for it
\* exactly the lines of that run's result, numbered from 1.
C8_LatestResultOnly ==
    last.op \in {"crew_save_extracted", "cortex_extract"} =>
        EXTRACTED_LINES[last.doc_id] = StoredRows(last.doc_id, last.lines)

----------------------------------------------------------------------------
(* Claims about ground truth *)

\* The grid cells that hold ground truth: a named project and hours > 0.
FilledCells(grid) ==
    { <<r, i>> \in (DOMAIN grid) \X (1..NumDays) :
        /\ grid[r].Project \notin {NoneVal, Str("")}
        /\ grid[r].cells[i].t = "num"
        /\ grid[r].cells[i].v > 0 }

\* The ground-truth row a filled cell stands for.
RowOfCell(doc_id, worker, grid, rc) ==
    [doc_id |-> doc_id, worker |-> worker, work_date |-> Str(WeekDates[rc[2]]),
     project |-> grid[rc[1]].Project, hours |-> grid[rc[1]].cells[rc[2]]]

Occurrences(rows, x) == Cardinality({ i \in DOMAIN rows : rows[i] = x })

\* C10: after "Save Ground Truth" for a document, its ground-truth rows are
\* exactly the rows of the filled cells of the saved grid, one per cell, and
\* the rows of every other document are unchanged.
C10_SaveReplacesGroundTruth ==
    [][ last'.op = "save_ground_truth" =>
          LET d     == last'.doc_id
              g     == last'.grid
              rows  == GROUND_TRUTH_LINES'[d]
              cells == FilledCells(g)
          IN  /\ Len(rows) = Cardinality(cells)
              /\ \A rc \in cells :
                    Occurrences(rows, RowOfCell(d, last'.worker, g, rc)) =
                        Cardinality({ rc2 \in cells :
                            RowOfCell(d, last'.worker, g, rc2) = RowOfCell(d, last'.worker, g, rc) })
              /\ \A e \in Docs \ {d} : GROUND_TRUTH_LINES'[e] = GROUND_TRUTH_LINES[e] ]_vars

\* C10 witness: a document that had ground truth has been saved again from a
\* grid with filled cells while the other document holds ground truth.
C10_Witness ==
    /\ last.op = "save_ground_truth"
    /\ last.had_rows
    /\ FilledCells(last.grid) # {}
    /\ GROUND_TRUTH_LINES[last.doc_id] # <<>>
    /\ \E e \in Docs \ {last.doc_id} : GROUND_TRUTH_LINES[e] # <<>>

----------------------------------------------------------------------------
(* Claims about the approval ledger *)

\* The decision rows stored for a line_id, counted with multiplicity.
DecisionCount(bag, line_id) ==
    LET rs == SeqOfSet({ r \in BagToSet(bag) : r.line_id = line_id })
    IN  Len(ConcatAll([k \in DOMAIN rs |-> [n \in 1..bag[rs[k]] |-> rs[k]]]))

\* Every line_id a decision row can carry.
KnownLineIds ==
    { r.line_id : r \in BagToSet(LEDGER_APPROVALS) }
    \cup UNION { { EXTRACTED_LINES[d][i].line_id : i \in DOMAIN EXTRACTED_LINES[d] } : d \in Docs }

\* C11: after any sequence of Submit, "Approve All Lines" and "Clear All
\* Approvals" statements of any reviewers, in any interleaving,
\* LEDGER_APPROVALS holds at most one decision row per line_id.
C11_OneDecisionPerLine ==
    \A id \in KnownLineIds : DecisionCount(LEDGER_APPROVALS, id) <= 1

\* A Submit landed on a line of a document while another reviewer's
\* "Approve All Lines" loop over that document was under way, and a third
\* decision row exists elsewhere.
C11_Witness ==
    /\ last.op = "submit"
    /\ \E r \in Reviewers : /\ reviewers[r].pc = "approving"
                            /\ reviewers[r].doc_id = last.doc_id
                            /\ Len(reviewers[r].rows) < Len(EXTRACTED_LINES[last.doc_id])
    /\ DecisionCount(LEDGER_APPROVALS, last.row.line_id) = 1
    /\ Cardinality(BagToSet(LEDGER_APPROVALS)) >= 2

\* The decision rows of a line.
DecisionsOf(line_id) == { r \in BagToSet(LEDGER_APPROVALS) : r.line_id = line_id }

\* The ledger rows of a line, for given tables.
LedgerOfIn(table, approvals, line_id) ==
    LET ledger == TrustedLedger(table, approvals)
    IN  { ledger[k] : k \in { j \in DOMAIN ledger : ledger[j].line_id = line_id } }

\* The ledger rows of a line.
LedgerOf(line_id) == LedgerOfIn(EXTRACTED_LINES, LEDGER_APPROVALS, line_id)

\* The original values of an extracted row, in the shape of a ledger row.
Original(e) ==
    [line_id |-> e.line_id, doc_id |-> e.doc_id, worker |-> e.worker,
     work_date |-> e.work_date, project |-> e.project, hours |-> e.hours]

\* C12: when "Approve All Lines" has completed for a document, every
\* extracted line of the document has a decision row, the row says APPROVED
\* and carries no override value and no reason of an earlier CORRECTED or
\* REJECTED decision, and the trusted ledger emits the line's original values.
C12_ApproveAllOverwrites ==
    last.op = "approve_all" =>
        \A i \in DOMAIN EXTRACTED_LINES[last.doc_id] :
            LET e == EXTRACTED_LINES[last.doc_id][i]
            IN  /\ DecisionsOf(e.line_id) # {}
                /\ \A r \in DecisionsOf(e.line_id) :
                       /\ r.decision = "APPROVED"
                       /\ r.corrected_hours = NoneVal
                       /\ r.corrected_date = NoneVal
                       /\ r.corrected_project = NoneVal
                       /\ r.reason = NoneVal
                /\ Original(e) \in LedgerOf(e.line_id)

\* The decision row a form leaves for a line.
RowOfForm(row, doc_id, f) ==
    ApprovalRow(row.line_id, doc_id, f.decision, f.corrected_hours, f.corrected_date,
                f.corrected_project, f.reason)

\* C13: a decision submitted for a line a second time in a row leaves the
\* table as the first submission left it, with one decision row for the line
\* that carries the decision and override values of the form; and "Clear All
\* Approvals" followed by "Approve All Lines" on a document whose lines were
\* all APPROVED gives back the same set of approved lines.
C13_ApprovalIdempotence ==
    [][ /\ (last'.op = "submit" /\ last'.again) =>
               /\ LEDGER_APPROVALS' = LEDGER_APPROVALS
               /\ DecisionCount(LEDGER_APPROVALS', last'.row.line_id) = 1
               /\ RowOfForm(last'.row, last'.doc_id, last'.form) \in BagToSet(LEDGER_APPROVALS')
        /\ (/\ last.op = "clear_approvals"
            /\ last.all_approved
            /\ last'.op = "approve_all"
            /\ last'.doc_id = last.doc_id) =>
               /\ ApprovedLineIds(LEDGER_APPROVALS', last.doc_id) = last.approved_before
               /\ AllApproved(EXTRACTED_LINES'[last.doc_id], LEDGER_APPROVALS')
      ]_vars

\* A CORRECTED decision has just been submitted for the second time in a row.
C13_Witness ==
    /\ last.op = "submit"
    /\ last.again
    /\ last.form.decision = "CORRECTED"
    /\ DecisionCount(LEDGER_APPROVALS, last.row.line_id) = 1

\* C14: "Clear All Approvals" for a document removes every decision of the
\* document, so that each of its lines is UNREVIEWED (has no decision row),
\* and leaves the decisions of the other documents, the extracted lines, the
\* validation checks and the ground-truth rows as they were.
C14_ClearFrame ==
    [][ last'.op = "clear_approvals" =>
            /\ \A r \in BagToSet(LEDGER_APPROVALS') : r.doc_id # last'.doc_id
            /\ \A i \in DOMAIN EXTRACTED_LINES'[last'.doc_id] :
                   \A r \in BagToSet(LEDGER_APPROVALS') :
                       r.line_id # EXTRACTED_LINES'[last'.doc_id][i].line_id
            /\ \A r \in BagToSet(LEDGER_APPROVALS) :
                   r.doc_id # last'.doc_id =>
                       /\ r \in BagToSet(LEDGER_APPROVALS')
                       /\ LEDGER_APPROVALS'[r] = LEDGER_APPROVALS[r]
            /\ \A r \in BagToSet(LEDGER_APPROVALS') : r \in BagToSet(LEDGER_APPROVALS)
            /\ EXTRACTED_LINES' = EXTRACTED_LINES
            /\ VALIDATION_RESULTS' = VALIDATION_RESULTS
            /\ GROUND_TRUTH_LINES' = GROUND_TRUTH_LINES
      ]_vars

\* The decisions of d1 have been cleared while d2 keeps its decision, and
\* validation checks and ground truth are stored.
C14_Witness ==
    /\ last.op = "clear_approvals"
    /\ last.doc_id = "d1"
    /\ last.approved_before # {}
    /\ \E r \in BagToSet(LEDGER_APPROVALS) : r.doc_id = "d2"
    /\ VALIDATION_RESULTS["d1"] # <<>>
    /\ GROUND_TRUTH_LINES["d1"] # <<>>

----------------------------------------------------------------------------
(* Claims about the trusted ledger and the reconciliation input *)

\* C15: in every reachable state the trusted ledger has an entry for an
\* extracted line exactly when the line's decision is APPROVED or CORRECTED;
\* a line with no decision or with a REJECTED decision has no entry, and every
\* entry of the ledger is the entry of an extracted line.
C15_LedgerMembership ==
    LET ledger == TrustedLedger(EXTRACTED_LINES, LEDGER_APPROVALS)
        rows   == AllExtractedRows(EXTRACTED_LINES)
    IN  /\ \A i \in DOMAIN rows :
               LET id == rows[i].line_id
               IN  /\ (LedgerOf(id) # {}) <=>
                          (\E r \in DecisionsOf(id) : r.decision \in {"APPROVED", "CORRECTED"})
                   /\ (\/ DecisionsOf(id) = {}
                       \/ \E r \in DecisionsOf(id) : r.decision = "REJECTED")
                          => LedgerOf(id) = {}
        /\ \A k \in DOMAIN ledger : \E i \in DOMAIN rows : rows[i].line_id = ledger[k].line_id

\* One line of d1 is CORRECTED, the other REJECTED, and the line of d2 has no
\* decision.
C15_Witness ==
    /\ \E r \in DecisionsOf(LineId("d1", 1)) : r.decision = "CORRECTED"
    /\ \E r \in DecisionsOf(LineId("d1", 2)) : r.decision = "REJECTED"
    /\ DecisionsOf(LineId("d2", 1)) = {}
    /\ LedgerOf(LineId("d1", 1)) # {}
    /\ LedgerOf(LineId("d1", 2)) = {}

\* The ledger entry claimed for the line e under a CORRECTED form f: each of
\* hours, work_date and project is the override when one was given and the
\* original value when none was.
CorrectedEntry(e, f) ==
    [line_id |-> e.line_id, doc_id |-> e.doc_id, worker |-> e.worker,
     work_date |-> IF f.corrected_date.t = "none" THEN e.work_date ELSE f.corrected_date,
     project |-> IF f.corrected_project.t = "none" THEN e.project ELSE f.corrected_project,
     hours |-> IF f.corrected_hours.t = "none" THEN e.hours ELSE f.corrected_hours]

\* C16: once a CORRECTED decision is submitted for a line, the trusted ledger
\* entry of the line takes each of hours, work_date and project from the
\* override when it is present and from the extracted line when it is absent.
C16_CorrectionOverride ==
    [][ (last'.op = "submit" /\ last'.form.decision = "CORRECTED") =>
            LET rows == EXTRACTED_LINES'[last'.doc_id]
                same == { i \in DOMAIN rows : rows[i].line_id = last'.row.line_id }
            IN  LedgerOfIn(EXTRACTED_LINES', LEDGER_APPROVALS', last'.row.line_id) =
                    { CorrectedEntry(rows[i], last'.form) : i \in same }
      ]_vars

\* The line with 8.0 hours has been corrected to 6.5 hours, date and project
\* as extracted: its entry has hours 6.5 and the work_date and project of the
\* line.
C16_Witness ==
    /\ last.op = "submit"
    /\ last.doc_id = "d2"
    /\ last.row.hours = Num(Hours(8))
    /\ last.form = Form("CORRECTED", Num(13), last.row.work_date, last.row.project, Str(""))
    /\ LedgerOf(last.row.line_id) =
           { [line_id |-> last.row.line_id, doc_id |-> "d2", worker |-> last.row.worker,
              work_date |-> last.row.work_date, project |-> last.row.project,
              hours |-> Num(13)] }

\* C17: the reconciliation page takes the trusted ledger as its input whenever
\* at least one approval decision exists and the raw extracted lines only when
\* none exists; so once any decision exists, also when every decision is
\* REJECTED, the hours of a REJECTED line are not counted.
C17_ReconciliationInput ==
    last.op = "reconciliation" =>
        /\ (LEDGER_APPROVALS # EmptyBag) => last.source = "trusted ledger"
        /\ (LEDGER_APPROVALS = EmptyBag) => last.source = "extracted lines"
        /\ (LEDGER_APPROVALS # EmptyBag) =>
               \A k \in DOMAIN last.data :
                   \A r \in DecisionsOf(last.data[k].line_id) : r.decision # "REJECTED"

----------------------------------------------------------------------------
(* Claims about the accuracy comparison *)

\* The comparisons shown for document d whose key is k.
ComparisonsOfKey(d, k) ==
    IF d \in last.docs
    THEN { n \in DOMAIN last.shown[d].rows :
              <<last.shown[d].rows[n].work_date, last.shown[d].rows[n].project>> = k }
    ELSE {}

\* The status the key k of document d is to be classified with.
ExpectedStatus(d, k) ==
    LET in_gt  == k \in KeysOf(GROUND_TRUTH_LINES[d])
        in_ext == k \in KeysOf(EXTRACTED_LINES[d])
    IN  IF in_gt /\ in_ext
        THEN (IF HoursOfKey(GROUND_TRUTH_LINES[d], k) = HoursOfKey(EXTRACTED_LINES[d], k)
              THEN "MATCH" ELSE "DISCREPANCY")
        ELSE IF in_gt THEN "MISSING_EXTRACTED" ELSE "EXTRA_EXTRACTED"

----------------------------------------------------------------------------
(* Claims about the pipeline run *)

\* C21: reconciliation history is append-only.  A step that saves a run's
\* reconciliation appends exactly that result to RECON_SUMMARY, every other
\* step leaves the table as it is, and the rows already there are kept
\* unchanged in both cases.
C21_ReconAppendOnly ==
    [][/\ Len(RECON_SUMMARY') >= Len(RECON_SUMMARY)
       /\ SubSeq(RECON_SUMMARY', 1, Len(RECON_SUMMARY)) = RECON_SUMMARY
       /\ IF last'.op = "crew_reconcile" /\ last'.saved
          THEN RECON_SUMMARY' = Append(RECON_SUMMARY, last'.recon)
          ELSE RECON_SUMMARY' = RECON_SUMMARY]_vars

\* Two runs have saved different results for the same period and both rows
\* are in the table.
C21_Witness ==
    /\ last.op = "crew_reconcile"
    /\ last.saved
    /\ crew.runs = 2
    /\ Len(RECON_SUMMARY) = 2
    /\ RECON_SUMMARY[1].period_month = RECON_SUMMARY[2].period_month
    /\ RECON_SUMMARY[1] # RECON_SUMMARY[2]
    /\ RECON_SUMMARY[2] = last.recon

\* C22: a failure while one document is processed is not fatal to the run.
\* After get_ocr_text or run_extraction has failed for a document, the run
\* goes on (it has not been left by the exception) and the failed document
\* is represented by an extraction without lines.
C22_FailureNotFatal ==
    last.op = "crew_extract_failed" =>
        /\ crew.pc # "raised"
        /\ \E i \in DOMAIN crew.extractions :
               crew.extractions[i] = [doc_id |-> last.doc_id, lines |-> <<>>]

----------------------------------------------------------------------------
(* Claims about decisions and ground truth as stored *)

\* A value that is neither NULL nor the empty string.
NonEmpty(x) == x # NoneVal /\ x # Str("")

\* C23: every stored decision row that says CORRECTED carries at least one
\* non-empty override among corrected_hours, corrected_date and
\* corrected_project.
C23_CorrectedCarriesOverride ==
    \A r \in BagToSet(LEDGER_APPROVALS) :
        r.decision = "CORRECTED" =>
            \/ NonEmpty(r.corrected_hours)
            \/ NonEmpty(r.corrected_date)
            \/ NonEmpty(r.corrected_project)

\* A CORRECTED decision has been submitted and its row is stored with an
\* empty corrected_project, while a REJECTED row is stored as well.
C23_Witness ==
    /\ last.op = "submit"
    /\ last.form.decision = "CORRECTED"
    /\ \E r \in BagToSet(LEDGER_APPROVALS) :
           /\ r.line_id = last.row.line_id
           /\ r.decision = "CORRECTED"
           /\ r.corrected_project = Str("")
    /\ \E d \in Docs : \E r \in BagToSet(LEDGER_APPROVALS) :
           r.doc_id = d /\ r.decision = "REJECTED"

\* C24: GROUND_TRUTH_LINES holds at most one row per (doc_id, work_date,
\* project) after any sequence of "Save Ground Truth" and "Clear Ground
\* Truth", also when the edited grid has two rows with the same project.
C24_OneRowPerGroundTruthKey ==
    \A d \in Docs : \A i, j \in DOMAIN GROUND_TRUTH_LINES[d] :
        /\ GROUND_TRUTH_LINES[d][i].work_date = GROUND_TRUTH_LINES[d][j].work_date
        /\ GROUND_TRUTH_LINES[d][i].project = GROUND_TRUTH_LINES[d][j].project
        => i = j

\* What get_ground_truth returns for a document that holds the rows given.
ReadOf(doc_id, rows) == get_ground_truth([d \in Docs |-> rows], doc_id)

\* C25: "Save Ground Truth" is atomic to readers.  A read of a document's
\* ground truth made while a non-empty set is being saved for it returns the
\* complete prior set or the complete new set.
C25_SaveGroundTruthAtomic ==
    ( /\ last.op = "get_ground_truth"
      /\ last.session.pc = "saving"
      /\ last.session.doc_id = last.doc_id )
    => \/ last.rows = ReadOf(last.doc_id, last.session.before)
       \/ last.rows = ReadOf(last.doc_id, last.session.rows)

\* C26: "Approve All Lines" is all-or-nothing.  Every state the operation
\* leaves committed, its last one or one a reader or a failure finds on the
\* way, has every line of the document APPROVED or has the decisions as they
\* were before the statement.
C26_ApproveAllAtomic ==
    [][last'.op \in {"approve_all", "approve_all_step"} =>
          \/ AllApproved(EXTRACTED_LINES[last'.doc_id], LEDGER_APPROVALS')
          \/ LEDGER_APPROVALS' = LEDGER_APPROVALS]_vars

----------------------------------------------------------------------------
(* Claims about the pipeline's saves and their readers *)

\* The persisted data of a document: its decisions, checks and lines.
PersistedOf(t, doc_id) ==
    <<ApprovalsOf(t.approvals, doc_id), t.validations[doc_id], t.extracted[doc_id]>>

\* C27: save_extracted_lines replaces a document's data atomically.  While a
\* call is in progress, and after a call has failed, the document's
\* decisions, checks and lines are those from before the call or, all
\* together, those of the completed call.
C27_SaveExtractedAtomic ==
    crew.saving.doc_id # "none" =>
        LET s       == crew.saving
            current == Tables(LEDGER_APPROVALS, VALIDATION_RESULTS, EXTRACTED_LINES)
            new     == Tables(DeleteDoc(s.before.approvals, s.doc_id),
                              [s.before.validations EXCEPT ![s.doc_id] = <<>>],
                              crew_save_extracted_lines(s.before.extracted, s.doc_id, s.lines))
        IN  \/ PersistedOf(current, s.doc_id) = PersistedOf(s.before, s.doc_id)
            \/ /\ crew.pc # "raised"
               /\ PersistedOf(current, s.doc_id) = PersistedOf(new, s.doc_id)

\* The run has left phase 1 (and was not left by an exception).
PastExtraction == crew.pc \in {"validate", "ground_truth", "reconcile", "done"}

\* C28: stage order within one run.  Validation starts only once every
\* document of the run has been extracted and, when saving, persisted;
\* ground-truth comparison starts only once every extraction is validated;
\* the reconciliation is the last stage and reads the extractions of all
\* documents; what a stage has read of an extraction is what the run still
\* holds for it.
C28_StageOrder ==
    /\ PastExtraction =>
           /\ Len(crew.extractions) = Len(crew.doc_ids)
           /\ \A i \in DOMAIN crew.doc_ids :
                  /\ crew.extractions[i].doc_id = crew.doc_ids[i]
                  /\ crew.save_to_snowflake =>
                         EXTRACTED_LINES[crew.doc_ids[i]] =
                             StoredRows(crew.doc_ids[i], crew.extractions[i].lines)
    /\ crew.validations # <<>> => PastExtraction
    /\ Len(crew.validations) <= Len(crew.extractions)
    /\ \A j \in DOMAIN crew.validations :
           crew.validations[j].extraction = crew.extractions[j]
    /\ crew.accuracy_reports # <<>> =>
           /\ crew.pc \in {"ground_truth", "reconcile", "done"}
           /\ Len(crew.validations) = Len(crew.extractions)
    /\ \A k \in DOMAIN crew.accuracy_reports :
           \E i \in DOMAIN crew.extractions :
               crew.accuracy_reports[k].extraction = crew.extractions[i]
    /\ crew.pc \in {"ground_truth", "reconcile", "done"} =>
           Len(crew.validations) = Len(crew.extractions)
    /\ crew.reconciliation # NoneVal =>
           /\ crew.pc = "done"
           /\ crew.reconciliation.timesheets = crew.extractions
           /\ Len(crew.extractions) = Len(crew.doc_ids)

\* A saving run over two documents has finished: both were extracted and
\* validated, one was compared with its ground truth, the reconciliation
\* was made.
C28_Witness ==
    /\ crew.pc = "done"
    /\ crew.save_to_snowflake
    /\ Len(crew.doc_ids) = 2
    /\ Len(crew.validations) = 2
    /\ Len(crew.accuracy_reports) = 1
    /\ crew.reconciliation # NoneVal

\* C29: under every interleaving of a re-extraction with approvals made from
\* a page loaded before it, every stored decision refers to an extracted
\* line that exists now with the content the reviewer judged.
C29_DecisionsOnJudgedLines ==
    \A a \in BagToSet(LEDGER_APPROVALS) :
        /\ a.line_id \in DOMAIN judged
        /\ \E i \in DOMAIN EXTRACTED_LINES[a.doc_id] :
               EXTRACTED_LINES[a.doc_id][i] = judged[a.line_id]

----------------------------------------------------------------------------
(* Claims about the scripts run in sequence *)

\* The documents the last run of the extraction script extracted: those for
\* which extract_with_cortex returned a result.
ExtractedByScript ==
    { d \in Docs : cortex.all_results[d] # NoneVal /\ ~cortex.all_results[d].error }

\* The statuses persisted for a document-level rule of a document.
PersistedStatus(d, rule) ==
    { VALIDATION_RESULTS[d][i].status :
        i \in { j \in DOMAIN VALIDATION_RESULTS[d] :
                  /\ VALIDATION_RESULTS[d][j].rule_name = rule
                  /\ VALIDATION_RESULTS[d][j].line_id = NoneVal } }

\* C30: when the validation script ends after the extraction script, every
\* extracted document has its four document-level checks persisted; for a
\* document without lines WORKER_IDENTIFIABLE, DATES_PRESENT and
\* TOTAL_HOURS_REASONABLE are FAIL.
C30_EveryExtractedDocumentValidated ==
    (last.op = "main_finish" /\ cortex.pc = "done") =>
        \A d \in ExtractedByScript :
            /\ \A n \in DOMAIN DocumentRules : PersistedStatus(d, DocumentRules[n]) # {}
            /\ EXTRACTED_LINES[d] = <<>> =>
                   \A n \in 1..3 : PersistedStatus(d, DocumentRules[n]) = {"FAIL"}

====
